---- MODULE Spec2Model ----
(***************************************************************************)
(* State storage, change detection and export writing of the CAAC document *)
(* monitor (src/src/storage.py, src/src/r2_uploader.py, src/src/main.py).  *)
(*                                                                         *)
(* SpecDetect : Storage.detect_changes as a function of the loaded         *)
(*              snapshot and the current fetch.                            *)
(* SpecStore  : the Storage object over the files it owns: load, repeated  *)
(*              detection, update_state, and the index saves, each write   *)
(*              taken step by step with exceptions and process crashes.    *)
(* SpecExport : sync_js_files over the JS export files, each write taken   *)
(*              step by step with process interruption.                    *)
(***************************************************************************)
EXTENDS Integers, Sequences, FiniteSets, TLC

VARIABLES
    fs,                 \* the files: path -> content
    _state,             \* Storage._state: the cached StorageState, or None
    current_documents,  \* the fetch of the run: cat_id -> list of Document
    changes,            \* the ChangeResult of the last detect_changes call
    pc,                 \* position of the process
    pending,            \* the write in progress
    calls,              \* detect_changes calls made in a row: what each saw and returned
    sync,               \* sync_js_files: its locals, and the exports as last written whole
    dl,                 \* the download sync of main: index, local files, counters
    r2                  \* R2Uploader.upload_downloads: cache, url map, uploads made

vars == <<fs, _state, current_documents, changes, pc, pending, calls, sync, dl, r2>>

None == [none |-> TRUE]

----------------------------------------------------------------------------
(* Bounds *)

MaxKnown == 2       \* records in the known snapshot, over all categories
MaxCurrent == 2     \* documents in the current fetch, over all categories

----------------------------------------------------------------------------
(* Data *)

\* Four of the categories of crawler.CATEGORIES: one without a legacy key and the
\* three that have one.
CATEGORIES == {"9", "13", "14", "15"}

\* CATEGORIES[cat_id]: the name of the category.
CategoryName(cat_id) ==
    CASE cat_id = "9"  -> "notices"
      [] cat_id = "13" -> "regulations"
      [] cat_id = "14" -> "normatives"
      [] OTHER         -> "standards"

\* The categories the fetches of each specification range over.
DetectCategories == {"13", "14"}
StoreCategories == {"9", "13"}

Urls == {"A", "B"}

\* The tracked fields a list page row can show for a url: a base row, the row with
\* another title, the row with another validity.
RowFields ==
    {[title |-> "X", validity |-> "valid"],
     [title |-> "Y", validity |-> "valid"],
     [title |-> "X", validity |-> "superseded"]}

TRACKED_CHANGE_FIELDS ==
    <<"title", "doc_number", "validity", "office_unit", "sign_date", "publish_date">>

\* crawler.Document: the fields a list page row is parsed into. A freshly
\* parsed document carries no attachment (pdf_url = "", has_pdf = FALSE).
Document(cat_id, url, title, validity) ==
    [title |-> title, url |-> url, category |-> CategoryName(cat_id),
     category_id |-> cat_id, doc_number |-> "N1", office_unit |-> "U1",
     sign_date |-> "", publish_date |-> "2024-01-15", validity |-> validity,
     pdf_url |-> "", has_pdf |-> FALSE]

\* Document.to_dict: asdict(self), the record with every field of the document.
to_dict(doc) == [f \in DOMAIN doc |-> doc[f]]

\* download_document_file stamps the attachment on the document it saved.
StampPdf(doc, link) ==
    [doc EXCEPT !.pdf_url = link, !.has_pdf = (link # "")]

\* str.strip() on the strings of the model.
Strip(s) ==
    CASE s = " "  -> ""
      [] s = "X " -> "X"
      [] s = " Y" -> "Y"
      [] OTHER    -> s

\* str(doc_data.get(field_name, "") or "").strip(), on the string fields.
_doc_field_value(doc_data, field_name) ==
    Strip(IF field_name \in DOMAIN doc_data THEN doc_data[field_name] ELSE "")

SignatureOver(doc_data, fields) ==
    [i \in DOMAIN fields |-> _doc_field_value(doc_data, fields[i])]

\* Variants of _doc_signature: a tracked field left out, an attachment field taken in.
_doc_signature_without_validity(doc_data) ==
    SignatureOver(doc_data, SelectSeq(TRACKED_CHANGE_FIELDS, LAMBDA f : f # "validity"))

_doc_signature_without_title(doc_data) ==
    SignatureOver(doc_data, SelectSeq(TRACKED_CHANGE_FIELDS, LAMBDA f : f # "title"))

_doc_signature_with_pdf_url(doc_data) ==
    SignatureOver(doc_data, Append(TRACKED_CHANGE_FIELDS, "pdf_url"))

_doc_signature(doc_data) == SignatureOver(doc_data, TRACKED_CHANGE_FIELDS)

----------------------------------------------------------------------------
(* Storage.detect_changes *)

RECURSIVE ConcatLists(_, _)
ConcatLists(m, keys) ==
    IF keys = {} THEN <<>>
    ELSE LET k == CHOOSE x \in keys : TRUE
         IN m[k] \o ConcatLists(m, keys \ {k})

\* Variant of KnownList: the known records of every category.
KnownListAnyCategory(documents, cat_id) == ConcatLists(documents, DOMAIN documents)

\* state.documents.get(cat_id, [])
KnownList(documents, cat_id) ==
    IF cat_id \in DOMAIN documents THEN documents[cat_id] ELSE <<>>

\* known_by_url: a dict filled in list order, so a later record of a url
\* overwrites an earlier one; records with an empty url are left out.
known_by_url(known_list) ==
    LET urls == {_doc_field_value(known_list[i], "url") : i \in DOMAIN known_list} \ {""}
        last(u) == CHOOSE i \in DOMAIN known_list :
                      /\ _doc_field_value(known_list[i], "url") = u
                      /\ \A j \in DOMAIN known_list :
                            _doc_field_value(known_list[j], "url") = u => j <= i
    IN [u \in urls |-> known_list[last(u)]]

IsNewDoc(by_url, doc) == doc.url \notin DOMAIN by_url

IsChangedDoc(by_url, doc) ==
    /\ doc.url \in DOMAIN by_url
    /\ _doc_signature(by_url[doc.url]) # _doc_signature(doc)

new_docs(documents, cat_id, docs) ==
    LET by_url == known_by_url(KnownList(documents, cat_id))
    IN SelectSeq(docs, LAMBDA d : IsNewDoc(by_url, d))

changed_docs(documents, cat_id, docs) ==
    LET by_url == known_by_url(KnownList(documents, cat_id))
    IN SelectSeq(docs, LAMBDA d : IsChangedDoc(by_url, d))

\* ChangeResult: a category is a key only when its list is not empty.
detect_changes(documents, current) ==
    [new_documents |->
        [c \in {x \in DOMAIN current : new_docs(documents, x, current[x]) # <<>>} |->
            new_docs(documents, c, current[c])],
     updated_documents |->
        [c \in {x \in DOMAIN current : changed_docs(documents, x, current[x]) # <<>>} |->
            changed_docs(documents, c, current[c])]]

NoChanges == [new_documents |-> <<>>, updated_documents |-> <<>>]

----------------------------------------------------------------------------
(* Input spaces *)

RECURSIVE SumLen(_, _)
SumLen(m, keys) ==
    IF keys = {} THEN 0
    ELSE LET k == CHOOSE x \in keys : TRUE
         IN Len(m[k]) + SumLen(m, keys \ {k})

TotalDocs(m) == SumLen(m, DOMAIN m)

\* What one fetch of a category can return: the list page is parsed row by row,
\* and the same url can occur twice.
FetchedDocs(cat_id) ==
    {Document(cat_id, u, r.title, r.validity) : u \in Urls, r \in RowFields}

\* What update_state wrote for a category in an earlier run: the records of
\* fetched documents, some of them stamped by the download.
KnownRecords(cat_id) ==
    {to_dict(StampPdf(d, link)) : d \in FetchedDocs(cat_id), link \in {"", "P"}}

\* The maps from exactly the categories cats to lists of records (records[c] for
\* category c), n records in all at most.
RECURSIVE MapsOver(_, _, _)
MapsOver(cats, records, n) ==
    IF cats = {} THEN {<<>>}
    ELSE LET c == CHOOSE x \in cats : TRUE
         IN UNION {{(c :> l) @@ rest :
                        l \in [1..k -> records[c]],
                        rest \in MapsOver(cats \ {c}, records, n - k)}
                   : k \in 0..n}

\* The same over every subset of the categories: a category can be missing.
DocMaps(cats, records, n) ==
    UNION {MapsOver(D, records, n) : D \in SUBSET cats}

KnownSpace == DocMaps(DetectCategories, [c \in DetectCategories |-> KnownRecords(c)], MaxKnown)

\* main goes on to detect_changes only when the fetch holds a document.
CurrentSpace ==
    {m \in DocMaps(DetectCategories, [c \in DetectCategories |-> FetchedDocs(c)], MaxCurrent) : TotalDocs(m) >= 1}

----------------------------------------------------------------------------
(* SpecDetect *)

NoDl == [none |-> TRUE]
NoR2 == [none |-> TRUE]

NoSync ==
    [run |-> 0, url_map |-> <<>>, existing_file_number_by_url |-> <<>>,
     todo |-> <<>>, committed |-> <<>>]

NoPending ==
    [step |-> "none", path |-> "", temp |-> "", data |-> None, state |-> None,
     next |-> ""]

InitDetect ==
    /\ \E known \in KnownSpace : _state = [last_check |-> "t0", documents |-> known]
    /\ current_documents \in CurrentSpace
    /\ changes = NoChanges
    /\ pc = "fetched"
    /\ fs = <<>>
    /\ pending = NoPending
    /\ calls = <<>>
    /\ sync = NoSync
    /\ dl = NoDl
    /\ r2 = NoR2

\* detect_changes on a Storage whose state is loaded: load() returns self._state.
DetectChanges ==
    /\ pc = "fetched"
    /\ changes' = detect_changes(_state.documents, current_documents)
    /\ pc' = "detected"
    /\ UNCHANGED <<fs, _state, current_documents, pending, calls, sync, dl, r2>>

NextDetect == DetectChanges

SpecDetect == InitDetect /\ [][NextDetect]_vars

----------------------------------------------------------------------------
(* Properties of detect_changes (SpecDetect) *)

\* Document d is in list c of a ChangeResult map.
InMap(m, c, d) == c \in DOMAIN m /\ \E j \in DOMAIN m[c] : m[c][j] = d

\* The known records of category c in the loaded snapshot.
SnapshotList(c) ==
    IF c \in DOMAIN _state.documents THEN _state.documents[c] ELSE <<>>

HasCounterpart(c, u) ==
    \E j \in DOMAIN SnapshotList(c) : SnapshotList(c)[j].url = u

\* The known counterpart of url u: the record the lookup by url holds, which is
\* the last record of that url in the known list.
Counterpart(c, u) ==
    LET l == SnapshotList(c)
        j == CHOOSE x \in DOMAIN l :
                 l[x].url = u /\ \A y \in DOMAIN l : l[y].url = u => y <= x
    IN l[j]

Tuple(d) ==
    <<d.title, d.doc_number, d.validity, d.office_unit, d.sign_date, d.publish_date>>

Doc(c, u, t, v) ==
    [title |-> t, url |-> u, category |-> CategoryName(c), category_id |-> c,
     doc_number |-> "N1", office_unit |-> "U1", sign_date |-> "",
     publish_date |-> "2024-01-15", validity |-> v, pdf_url |-> "", has_pdf |-> FALSE]

\* C1: after detect_changes, a current document is in new_documents[category]
\* exactly when no known record of that category has its url, and new_documents
\* holds nothing but current documents of the category.
C1_NewIffUrlUnknown ==
    pc = "detected" =>
        /\ \A c \in DOMAIN current_documents :
             \A i \in DOMAIN current_documents[c] :
                LET d == current_documents[c][i]
                IN InMap(changes.new_documents, c, d) <=> ~HasCounterpart(c, d.url)
        /\ \A c \in DOMAIN changes.new_documents :
             /\ c \in DOMAIN current_documents
             /\ changes.new_documents[c] # <<>>
             /\ \A j \in DOMAIN changes.new_documents[c] :
                   \E i \in DOMAIN current_documents[c] :
                       current_documents[c][i] = changes.new_documents[c][j]

\* The scenario of C1: known {A, X}, current {A, X} and {B, Y}.
C1_Witness ==
    /\ pc = "detected"
    /\ _state.documents = ("13" :> <<Doc("13", "A", "X", "valid")>>)
    /\ current_documents =
          ("13" :> <<Doc("13", "A", "X", "valid"), Doc("13", "B", "Y", "valid")>>)
    /\ changes.new_documents = ("13" :> <<Doc("13", "B", "Y", "valid")>>)
    /\ DOMAIN changes.updated_documents = {}

\* C2: after detect_changes, a current document is in updated_documents[category]
\* exactly when it has a known counterpart of the same category and url whose
\* tuple of tracked fields differs from its own; with an equal tuple it is in
\* neither result map.
C2_UpdatedIffTupleDiffers ==
    pc = "detected" =>
        \A c \in DOMAIN current_documents :
            \A i \in DOMAIN current_documents[c] :
                LET d == current_documents[c][i]
                IN /\ InMap(changes.updated_documents, c, d) <=>
                        (HasCounterpart(c, d.url)
                            /\ Tuple(d) # Tuple(Counterpart(c, d.url)))
                   /\ (HasCounterpart(c, d.url)
                            /\ Tuple(d) = Tuple(Counterpart(c, d.url)))
                        => /\ ~InMap(changes.updated_documents, c, d)
                           /\ ~InMap(changes.new_documents, c, d)

\* The scenario of C2: known {A, X, valid}, current {A, X, superseded}.
C2_Witness ==
    /\ pc = "detected"
    /\ _state.documents = ("13" :> <<Doc("13", "A", "X", "valid")>>)
    /\ current_documents = ("13" :> <<Doc("13", "A", "X", "superseded")>>)
    /\ changes.updated_documents = ("13" :> <<Doc("13", "A", "X", "superseded")>>)
    /\ DOMAIN changes.new_documents = {}

\* d is its known counterpart k with the title changed and nothing else.
OnlyTitleChanged(d, k) ==
    /\ d.title # k.title
    /\ \A f \in (DOMAIN d \cup DOMAIN k) \ {"title"} :
          f \in DOMAIN d /\ f \in DOMAIN k /\ d[f] = k[f]

\* C3: a current document that is a known record of its category with only the
\* title changed is classified Updated and not New.
C3_TitleChangeIsUpdated ==
    pc = "detected" =>
        \A c \in DOMAIN current_documents :
            \A i \in DOMAIN current_documents[c] :
                LET d == current_documents[c][i]
                IN (HasCounterpart(c, d.url) /\ OnlyTitleChanged(d, Counterpart(c, d.url)))
                    => /\ InMap(changes.updated_documents, c, d)
                       /\ ~InMap(changes.new_documents, c, d)

C3_Witness ==
    /\ pc = "detected"
    /\ \E c \in DOMAIN current_documents :
         \E i \in DOMAIN current_documents[c] :
            LET d == current_documents[c][i]
            IN /\ HasCounterpart(c, d.url)
               /\ OnlyTitleChanged(d, Counterpart(c, d.url))
               /\ InMap(changes.updated_documents, c, d)

\* d and its known counterpart k differ in the attachment fields and in nothing else.
OnlyAttachmentDiffers(d, k) ==
    /\ (d.pdf_url # k.pdf_url \/ d.has_pdf # k.has_pdf)
    /\ \A f \in (DOMAIN d \cup DOMAIN k) \ {"pdf_url", "has_pdf"} :
          f \in DOMAIN d /\ f \in DOMAIN k /\ d[f] = k[f]

\* C4: a current document that differs from its known counterpart only in
\* pdf_url / has_pdf is in neither new_documents nor updated_documents.
C4_AttachmentNeverUpdates ==
    pc = "detected" =>
        \A c \in DOMAIN current_documents :
            \A i \in DOMAIN current_documents[c] :
                LET d == current_documents[c][i]
                IN (HasCounterpart(c, d.url)
                        /\ OnlyAttachmentDiffers(d, Counterpart(c, d.url)))
                    => /\ ~InMap(changes.updated_documents, c, d)
                       /\ ~InMap(changes.new_documents, c, d)

C4_Witness ==
    /\ pc = "detected"
    /\ \E c \in DOMAIN current_documents :
         \E i \in DOMAIN current_documents[c] :
            LET d == current_documents[c][i]
            IN /\ HasCounterpart(c, d.url)
               /\ OnlyAttachmentDiffers(d, Counterpart(c, d.url))
               /\ Counterpart(c, d.url).pdf_url = "P"
               /\ ~InMap(changes.updated_documents, c, d)

\* The documents of a ChangeResult map, as a set of (category, document) pairs.
DocSet(m) == UNION {{<<c, m[c][j]>> : j \in DOMAIN m[c]} : c \in DOMAIN m}

\* Every reordering of list l.
Reorderings(l) ==
    {[i \in DOMAIN l |-> l[p[i]]] :
        p \in {q \in [DOMAIN l -> DOMAIN l] : \A a, b \in DOMAIN l : q[a] = q[b] => a = b}}

\* C6: reordering the known list or the current list of a category leaves the
\* set of new documents and the set of updated documents the same, also when
\* the known list holds two records with the same url.
C6_OrderIndependent ==
    pc = "detected" =>
        /\ \A c \in DOMAIN _state.documents :
             \A l \in Reorderings(_state.documents[c]) :
                LET r == detect_changes([_state.documents EXCEPT ![c] = l],
                                        current_documents)
                IN /\ DocSet(r.new_documents) = DocSet(changes.new_documents)
                   /\ DocSet(r.updated_documents) = DocSet(changes.updated_documents)
        /\ \A c \in DOMAIN current_documents :
             \A l \in Reorderings(current_documents[c]) :
                LET r == detect_changes(_state.documents,
                                        [current_documents EXCEPT ![c] = l])
                IN /\ DocSet(r.new_documents) = DocSet(changes.new_documents)
                   /\ DocSet(r.updated_documents) = DocSet(changes.updated_documents)

----------------------------------------------------------------------------
(* Files *)

MaxStoreDocs == 2   \* documents in a fetch of SpecStore, over all categories

DATA_PATH == "data/regulations.json"
DOWNLOAD_INDEX_PATH == "data/downloads.json"
R2_INDEX_PATH == "data/r2_uploads.json"

\* f"{self.data_path}.corrupted.{timestamp}": the quarantine copy.
BackupPath == "data/regulations.json.corrupted"

\* tempfile.mkstemp(dir=dir_name, suffix=".tmp"): a new file in the directory of
\* the target. mkstemp picks a name no file has; the model keeps one name per
\* target, so a temp file an earlier write abandoned stands under the same name.
MkstempPath(file_path) ==
    IF file_path = DATA_PATH THEN "data/tmp_regulations.tmp"
    ELSE "data/tmp_downloads.tmp"

\* Where a store write puts its temporary file: atomic_write_json asks mkstemp,
\* _save_r2_index takes path + ".tmp".
TempPath(file_path) ==
    IF file_path = R2_INDEX_PATH THEN "data/r2_uploads.json.tmp"
    ELSE MkstempPath(file_path)

StorePaths == {DATA_PATH, DOWNLOAD_INDEX_PATH, R2_INDEX_PATH}

DataPaths == StorePaths \cup {TempPath(p) : p \in StorePaths} \cup {BackupPath}

\* os.path.dirname
dirname(path) == IF path \in DataPaths THEN "data" ELSE "JS"

\* File contents. A complete JSON text is its value and the kind of its top
\* level; a text cut short by an interrupted write names the value it was
\* the beginning of.
NoFile == [kind |-> "absent"]
EmptyFile == [kind |-> "empty"]
Garbage == [kind |-> "garbage"]
JsonObject(v) == [kind |-> "json", top |-> "object", value |-> v]
JsonArray == [kind |-> "json", top |-> "array", value |-> <<>>]
Truncated(v) == [kind |-> "truncated", value |-> v]

exists(files, path) == files[path].kind # "absent"

----------------------------------------------------------------------------
(* Storage.load *)

LEGACY_STATE_KEYS == [c \in {"13", "14", "15"} |->
    CASE c = "13" -> "regulations" [] c = "14" -> "normatives" [] OTHER -> "standards"]

\* crawler.get_legacy_doc_type
get_legacy_doc_type(category_id) ==
    CASE category_id = "13" -> "regulation"
      [] category_id = "14" -> "normative"
      [] category_id = "15" -> "standard"
      [] OTHER              -> "document"

Get(d, key, default) == IF key \in DOMAIN d THEN d[key] ELSE default

_build_legacy_record(doc, cat_id) ==
    [title |-> Get(doc, "title", ""), url |-> Get(doc, "url", ""),
     validity |-> Get(doc, "validity", ""), doc_number |-> Get(doc, "doc_number", ""),
     office_unit |-> Get(doc, "office_unit", ""),
     doc_type |-> get_legacy_doc_type(cat_id),
     sign_date |-> Get(doc, "sign_date", ""),
     publish_date |-> Get(doc, "publish_date", ""),
     pdf_url |-> Get(doc, "pdf_url", "")]

\* StorageState()
EmptyState == [last_check |-> "", documents |-> <<>>]

\* _normalize_documents: the entries whose value is a list, under str(cat_id).
\* The keys of a JSON object are strings and every value of the model is a list.
_normalize_documents(raw_documents) ==
    [c \in DOMAIN raw_documents |-> raw_documents[c]]

\* Variant of _load_legacy_documents: the lists stay under their flat keys.
_load_legacy_documents_flat(data) ==
    [k \in {LEGACY_STATE_KEYS[c] : c \in DOMAIN LEGACY_STATE_KEYS} \cap DOMAIN data |-> data[k]]

\* _load_legacy_documents: the flat keys first, then the bare category ids,
\* which overwrite them.
_load_legacy_documents(data) ==
    LET by_key == {c \in DOMAIN LEGACY_STATE_KEYS : LEGACY_STATE_KEYS[c] \in DOMAIN data}
        by_id == {c \in CATEGORIES : c \in DOMAIN data}
    IN [c \in by_key \cup by_id |->
            IF c \in by_id THEN data[c] ELSE data[LEGACY_STATE_KEYS[c]]]

\* The try block of load on a file that parses to a JSON object.
StateFromData(data) ==
    LET loaded_documents == Get(data, "documents", <<>>)
        documents == IF DOMAIN loaded_documents = {}
                     THEN _load_legacy_documents(data)
                     ELSE loaded_documents
    IN [last_check |-> Get(data, "last_check", ""),
        documents |-> _normalize_documents(documents)]

\* load with no cached state: the state it sets and the files it leaves.
\*   no file                      -> StorageState()
\*   a JSON object                -> the state read from it
\*   json.JSONDecodeError         -> copy2 to the backup path, StorageState()
\*   any other exception (a JSON text whose top level has no .get)
\*                                -> StorageState(), no copy
LoadFromFile(files) ==
    LET content == files[DATA_PATH]
    IN CASE ~exists(files, DATA_PATH) ->
              [state |-> EmptyState, fs |-> files]
         [] content.kind = "json" /\ content.top = "object" ->
              [state |-> StateFromData(content.value), fs |-> files]
         [] content.kind = "json" /\ content.top # "object" ->
              [state |-> EmptyState, fs |-> files]
         [] OTHER ->
              [state |-> EmptyState, fs |-> [files EXCEPT ![BackupPath] = content]]

\* Variant of load: the cached state is dropped instead of returned.
load_dropping_cache(cache, files) ==
    IF cache # None THEN [state |-> EmptyState, fs |-> files]
    ELSE LoadFromFile(files)

\* Storage.load: the cached state when there is one.
load(cache, files) ==
    IF cache # None THEN [state |-> cache, fs |-> files]
    ELSE LoadFromFile(files)

----------------------------------------------------------------------------
(* Storage.save, Storage.update_state, the index saves *)

\* Storage.save: the data written: the nested map and the three legacy lists.
SaveData(state) ==
    LET legacy(c) ==
            LET docs == Get(state.documents, c, <<>>)
            IN [i \in DOMAIN docs |-> _build_legacy_record(docs[i], c)]
    IN [last_check |-> state.last_check,
        documents |-> state.documents,
        regulations |-> legacy("13"),
        normatives |-> legacy("14"),
        standards |-> legacy("15")]

\* Variant of documents_dict: a category whose fetch is empty gets no key.
documents_dict_skipping_empty(current) ==
    [c \in {x \in DOMAIN current : current[x] # <<>>} |->
        [i \in DOMAIN current[c] |-> to_dict(current[c][i])]]

\* update_state: documents_dict[cat_id] = [doc.to_dict() for doc in docs]
documents_dict(current) ==
    [c \in DOMAIN current |-> [i \in DOMAIN current[c] |-> to_dict(current[c][i])]]

\* update_state: the StorageState handed to save; datetime.now() is "t1".
UpdatedState(current) ==
    [last_check |-> "t1", documents |-> documents_dict(current)]

\* save_download_index / _save_r2_index: the payload written.
IndexPayload(records) == [last_update |-> "t1", records |-> records]

\* Download index records: url -> {relative_path, updated_at}.
OldDownloadRecords ==
    ("A" :> [relative_path |-> "regulation/N1X.pdf", updated_at |-> "t0"])
NewDownloadRecords ==
    ("A" :> [relative_path |-> "regulation/N1Y.pdf", updated_at |-> "t1"])

\* Upload cache records: relative_path -> {r2_url, file_size}.
OldR2Records ==
    ("regulation/N1X.pdf" :> [r2_url |-> "https://r2/regulation/N1X.pdf", file_size |-> 2048])
NewR2Records ==
    ("regulation/N1Y.pdf" :> [r2_url |-> "https://r2/regulation/N1Y.pdf", file_size |-> 4096])

\* Variant of DumpPath: the dump goes to the target itself.
DumpPathInPlace(w) == w.path

\* The file the dump of a store write goes to: the temporary file.
DumpPath(w) == w.temp

----------------------------------------------------------------------------
(* SpecStore *)

StoreDocs(cat_id) ==
    {Document(cat_id, "A", "X", "valid"), Document(cat_id, "B", "X", "valid")}

StoreCurrentSpace ==
    {m \in DocMaps(StoreCategories, [c \in StoreCategories |-> StoreDocs(c)], MaxStoreDocs) : TotalDocs(m) >= 1}

\* Snapshots an earlier run can have saved.
EarlierDocs(cat_id) ==
    {Document(cat_id, "A", "X", "valid"), Document(cat_id, "A", "Y", "valid"),
     Document(cat_id, "B", "X", "valid")}

EarlierSpace ==
    {m \in DocMaps(StoreCategories, [c \in StoreCategories |-> EarlierDocs(c)], MaxStoreDocs) : TotalDocs(m) >= 1}

\* A state file of the legacy layout: flat lists only.
LegacyData ==
    [last_check |-> "t0",
     regulations |-> <<_build_legacy_record(Document("13", "A", "Y", "valid"), "13")>>,
     normatives |-> <<>>,
     standards |-> <<>>]

\* A state file of the legacy layout with a list under a bare category id.
LegacyDataById ==
    ("9" :> <<to_dict(Document("9", "B", "X", "valid"))>>) @@
    [last_check |-> "t0",
     regulations |-> <<_build_legacy_record(Document("13", "A", "X", "valid"), "13")>>]

InitialStateFiles ==
    {NoFile, Garbage, JsonArray, JsonObject(LegacyData), JsonObject(LegacyDataById)}
        \cup {JsonObject(SaveData([last_check |-> "t0", documents |-> documents_dict(m)])) :
                m \in EarlierSpace}

InitStore ==
    /\ \E sf \in InitialStateFiles :
            fs = [p \in DataPaths |->
                    CASE p = DATA_PATH           -> sf
                      [] p = DOWNLOAD_INDEX_PATH -> JsonObject(IndexPayload(OldDownloadRecords))
                      [] p = R2_INDEX_PATH       -> JsonObject(IndexPayload(OldR2Records))
                      [] OTHER                   -> NoFile]
    /\ _state = None
    /\ current_documents = <<>>
    /\ changes = NoChanges
    /\ pc = "start"
    /\ pending = NoPending
    /\ calls = <<>>
    /\ sync = NoSync
    /\ dl = NoDl
    /\ r2 = NoR2

\* storage.load()
Load ==
    /\ pc = "start"
    /\ pending = NoPending
    /\ LET l == load(_state, fs)
       IN /\ _state' = l.state
          /\ fs' = l.fs
    /\ UNCHANGED <<current_documents, changes, pc, pending, calls, sync, dl, r2>>

\* storage.detect_changes(all_documents), the first call of the run.
Detect(current) ==
    /\ pc = "start"
    /\ pending = NoPending
    /\ LET l == load(_state, fs)
           r == detect_changes(l.state.documents, current)
       IN /\ _state' = l.state
          /\ fs' = l.fs
          /\ changes' = r
          /\ calls' = <<[known |-> l.state.documents, result |-> r]>>
    /\ current_documents' = current
    /\ pc' = "detected"
    /\ UNCHANGED <<pending, sync, dl, r2>>

\* detect_changes called a second time in a row, with the same documents.
DetectAgain ==
    /\ pc = "detected"
    /\ pending = NoPending
    /\ LET l == load(_state, fs)
           r == detect_changes(l.state.documents, current_documents)
       IN /\ _state' = l.state
          /\ fs' = l.fs
          /\ changes' = r
          /\ calls' = Append(calls, [known |-> l.state.documents, result |-> r])
    /\ pc' = "detected_twice"
    /\ UNCHANGED <<current_documents, pending, sync, dl, r2>>

\* The start of a store write: the temporary file is created (mkstemp, or
\* open(tmp_path, "w"), which empties a file left there).
BeginWrite(path, data, state, next) ==
    /\ pending = NoPending
    /\ pending' = [step |-> "dump", path |-> path, temp |-> TempPath(path),
                   data |-> data, state |-> state, next |-> next]
    /\ fs' = [fs EXCEPT ![TempPath(path)] = EmptyFile]
    /\ UNCHANGED <<_state, current_documents, changes, pc, calls, sync, dl, r2>>

\* storage.save_download_index(download_index)
SaveDownloadIndexBegin ==
    /\ pc = "start"
    /\ BeginWrite(DOWNLOAD_INDEX_PATH, IndexPayload(NewDownloadRecords), None, "dl_saved")

\* R2Uploader._save_r2_index(r2_index_path, r2_index)
SaveR2IndexBegin ==
    /\ pc = "start"
    /\ BeginWrite(R2_INDEX_PATH, IndexPayload(NewR2Records), None, "r2_saved")

\* storage.update_state(all_documents), after the detection of the run
UpdateStateBegin ==
    /\ pc = "detected"
    /\ LET state == UpdatedState(current_documents)
       IN BeginWrite(DATA_PATH, SaveData(state), state, "done")

\* json.dump under way: a first part of the text has reached the file.
DumpPartial ==
    /\ pc # "dead"
    /\ pending.step = "dump"
    /\ fs[DumpPath(pending)].kind # "truncated"
    /\ fs' = [fs EXCEPT ![DumpPath(pending)] = Truncated(pending.data)]
    /\ UNCHANGED <<_state, current_documents, changes, pc, pending, calls, sync, dl, r2>>

\* json.dump done and f.flush(): the whole text is in the file.
DumpFlush ==
    /\ pc # "dead"
    /\ pending.step = "dump"
    /\ fs' = [fs EXCEPT ![DumpPath(pending)] = JsonObject(pending.data)]
    /\ pending' = [pending EXCEPT !.step = "flushed"]
    /\ UNCHANGED <<_state, current_documents, changes, pc, calls, sync, dl, r2>>

\* os.fsync(f.fileno()), and the file is closed.
Fsync ==
    /\ pc # "dead"
    /\ pending.step = "flushed"
    /\ pending' = [pending EXCEPT !.step = "synced"]
    /\ UNCHANGED <<fs, _state, current_documents, changes, pc, calls, sync, dl, r2>>

\* os.replace(temp_path, file_path); save then sets self._state = state.
Replace ==
    /\ pc # "dead"
    /\ pending.step = "synced"
    /\ fs' = [fs EXCEPT ![pending.path] = fs[pending.temp],
                        ![pending.temp] = IF pending.temp = pending.path
                                          THEN fs[pending.temp] ELSE NoFile]
    /\ _state' = IF pending.state # None THEN pending.state ELSE _state
    /\ pc' = pending.next
    /\ pending' = NoPending
    /\ UNCHANGED <<current_documents, changes, calls, sync, dl, r2>>

\* An exception in the write (OSError from json.dump, flush, fsync or replace).
\* atomic_write_json removes the temporary file and raises again, which ends the
\* run in main's handler; _save_r2_index removes nothing and main goes on.
WriteFails ==
    /\ pc # "dead"
    /\ pending.step \in {"dump", "flushed", "synced"}
    /\ IF pending.path = R2_INDEX_PATH
       THEN /\ pc' = pending.next
            /\ fs' = fs
       ELSE /\ pc' = "exited"
            /\ fs' = [fs EXCEPT ![pending.temp] = NoFile]
    /\ pending' = NoPending
    /\ UNCHANGED <<_state, current_documents, changes, calls, sync, dl, r2>>

\* The process is killed in the middle of a write: the files stay as they are.
Crash ==
    /\ pending.step \in {"dump", "flushed", "synced"}
    /\ pc # "dead"
    /\ pc' = "dead"
    /\ UNCHANGED <<fs, _state, current_documents, changes, pending, calls, sync, dl, r2>>

\* The next process: a fresh Storage("data/regulations.json") loads the file
\* that update_state of this run wrote.
FreshLoad ==
    /\ pc = "done"
    /\ LET l == load(None, fs)
       IN /\ _state' = l.state
          /\ fs' = l.fs
    /\ pc' = "reloaded"
    /\ UNCHANGED <<current_documents, changes, pending, calls, sync, dl, r2>>

NextStore ==
    \/ Load
    \/ FreshLoad
    \/ \E current \in StoreCurrentSpace : Detect(current)
    \/ DetectAgain
    \/ SaveDownloadIndexBegin
    \/ SaveR2IndexBegin
    \/ UpdateStateBegin
    \/ DumpPartial
    \/ DumpFlush
    \/ Fsync
    \/ Replace
    \/ WriteFails
    \/ Crash

SpecStore == InitStore /\ [][NextStore]_vars

----------------------------------------------------------------------------
(* Storage.load_download_index; SpecIndex: the two loads over the two files *)

\* A JSON value that is not an object: a string, a list.
JsonString(text) == [json_string |-> text]
JsonList(items) == [json_list |-> items]

\* isinstance(value, dict)
IsDict(value) == DOMAIN value \cap {"json_string", "json_list"} = {}

\* Variant of load_download_index: a record without relative_path is kept.
load_download_index_keeping_all(files) ==
    LET content == files[DOWNLOAD_INDEX_PATH]
    IN IF content.kind = "json" /\ content.top = "object"
       THEN LET raw_records == Get(content.value, "records", content.value)
            IN IF ~IsDict(raw_records) THEN <<>>
               ELSE [url \in {u \in DOMAIN raw_records : IsDict(raw_records[u])} |->
                        [relative_path |-> Strip(Get(raw_records[url], "relative_path", "")),
                         updated_at |-> Strip(Get(raw_records[url], "updated_at", ""))]]
       ELSE <<>>

\* Storage.load_download_index: no file, a text that does not parse, a top
\* level that is not an object, records that is not an object: the empty map.
load_download_index(files) ==
    LET content == files[DOWNLOAD_INDEX_PATH]
    IN IF content.kind = "json" /\ content.top = "object"
       THEN LET raw_records == Get(content.value, "records", content.value)
            IN IF ~IsDict(raw_records) THEN <<>>
               ELSE [url \in {u \in DOMAIN raw_records :
                                 /\ IsDict(raw_records[u])
                                 /\ Strip(Get(raw_records[u], "relative_path", "")) # ""} |->
                        [relative_path |-> Strip(Get(raw_records[url], "relative_path", "")),
                         updated_at |-> Strip(Get(raw_records[url], "updated_at", ""))]]
       ELSE <<>>

\* The records an index file can hold under a url.
IndexRecords ==
    {[relative_path |-> "regulation/N1X.pdf", updated_at |-> "t0"],
     [relative_path |-> " ", updated_at |-> "t0"],
     [updated_at |-> "t0"],
     JsonString("regulation/N1X.pdf")}

RawRecords == UNION {[D -> IndexRecords] : D \in SUBSET Urls}

\* What the index file can be: missing, unparseable, a JSON list, a payload
\* whose records is a list, an object of records without the "records" key, or
\* a payload as save_download_index writes it.
IndexFiles ==
    {NoFile, Garbage, EmptyFile, JsonArray,
     JsonObject([last_update |-> "t0", records |-> JsonList(<<>>)]),
     JsonObject([last_update |-> JsonString("t0")])}
        \cup {JsonObject(raw) : raw \in RawRecords}
        \cup {JsonObject(IndexPayload(raw)) : raw \in RawRecords}

IndexStateFiles ==
    {NoFile, Garbage, JsonArray, JsonObject(LegacyData),
     JsonObject(SaveData(UpdatedState("13" :> <<Document("13", "A", "X", "valid")>>)))}

InitIndex ==
    /\ \E sf \in IndexStateFiles, xf \in IndexFiles :
            fs = [p \in DataPaths |->
                    CASE p = DATA_PATH           -> sf
                      [] p = DOWNLOAD_INDEX_PATH -> xf
                      [] OTHER                   -> NoFile]
    /\ _state = None
    /\ current_documents = <<>>
    /\ changes = NoChanges
    /\ pc = "start"
    /\ pending = NoPending
    /\ calls = <<>>
    /\ sync = NoSync
    /\ dl = NoDl
    /\ r2 = NoR2

\* storage.load_download_index()
LoadDownloadIndex ==
    /\ pc = "start"
    /\ dl = NoDl
    /\ dl' = [download_index |-> load_download_index(fs)]
    /\ UNCHANGED <<fs, _state, current_documents, changes, pc, pending, calls, sync, r2>>

\* storage.load(), the first of the process
LoadState ==
    /\ _state = None
    /\ Load

NextIndex ==
    \/ LoadDownloadIndex
    \/ LoadState

SpecIndex == InitIndex /\ [][NextIndex]_vars

----------------------------------------------------------------------------
(* JS export files: _read_js_data, _write_js_data, sync_js_files *)

MaxRuns == 2
MaxExportDocs == 2

\* doc_type stands for the label of the category ("CCAR规章", "规范性文件",
\* "标准规范").
JS_EXPORT_CONFIG ==
    [c \in {"13", "14", "15"} |->
        CASE c = "13" -> [filename |-> "regulation.js", export_name |-> "regulationData",
                          doc_type |-> "regulation"]
          [] c = "14" -> [filename |-> "normative.js", export_name |-> "normativeData",
                          doc_type |-> "normative"]
          [] c = "15" -> [filename |-> "specification.js", export_name |-> "standardData",
                          doc_type |-> "standard"]]

\* The order of JS_EXPORT_CONFIG.items()
ExportOrder == <<"13", "14", "15">>

\* js_root / config["filename"]
JsPath(cat_id) ==
    CASE cat_id = "13" -> "JS/regulation.js"
      [] cat_id = "14" -> "JS/normative.js"
      [] cat_id = "15" -> "JS/specification.js"

JsPaths == {JsPath(c) : c \in DOMAIN JS_EXPORT_CONFIG}

\* The text of a JS file, as the pieces _read_js_data looks for.
VarData == [t |-> "var data = "]
ListOpen == [t |-> "["]
ListClose == [t |-> "];"]
Row(record) == [t |-> "row", row |-> record]
ModuleExports(export_name) == [t |-> "module.exports", name |-> export_name]

Text(tokens) == [kind |-> "text", tokens |-> tokens]

\* The content _write_js_data builds.
JsContent(records, export_name) ==
    <<VarData, ListOpen>> \o [i \in 1..Len(records) |-> Row(records[i])]
        \o <<ListClose, ModuleExports(export_name)>>

Min(S) == CHOOSE x \in S : \A y \in S : x <= y
Max(S) == CHOOSE x \in S : \A y \in S : x >= y

_read_js_data(files, file_path) ==
    IF ~exists(files, file_path) THEN <<>>
    ELSE
      LET content == files[file_path].tokens
          markers == {i \in DOMAIN content : content[i].t = "var data = "}
      IN IF markers = {} THEN <<>>
         ELSE
           LET marker_pos == Min(markers)
               opens == {i \in DOMAIN content : i >= marker_pos /\ content[i].t = "["}
               closes == {i \in DOMAIN content : content[i].t = "];"}
           IN IF opens = {} \/ closes = {} THEN <<>>
              ELSE
                LET list_start == Min(opens)
                    list_end == Max(closes)
                IN IF list_end < list_start THEN <<>>
                   ELSE IF \E i \in (list_start + 1)..(list_end - 1) : content[i].t # "row"
                   THEN <<>>
                   ELSE [i \in 1..(list_end - list_start - 1) |-> content[list_start + i].row]

\* "年", "月", "日" are written Y, M, D.
_format_js_date(date_str) ==
    CASE Strip(date_str) = ""           -> ""
      [] Strip(date_str) = "2024-01-15" -> "2024Y01M15D"
      [] Strip(date_str) = "2024Y1M5D"  -> "2024Y01M05D"
      [] OTHER                          -> Strip(date_str)

\* A key that a record has only when its value is not empty.
Optional(key, value) == IF value # "" THEN key :> value ELSE <<>>

_build_regulation_record(doc, doc_type, pdf_url) ==
    [title |-> doc.title, url |-> doc.url, doc_type |-> doc_type,
     validity |-> doc.validity, doc_number |-> doc.doc_number,
     office_unit |-> doc.office_unit]
        @@ Optional("pdf_url", pdf_url)

\* Variant of _build_normative_record: the file number is derived from the
\* document in every run.
_build_normative_record_rederived(doc, doc_type, cached_file_number, pdf_url) ==
    [title |-> doc.title, url |-> doc.url, doc_type |-> doc_type,
     validity |-> doc.validity, sign_date |-> _format_js_date(doc.sign_date),
     publish_date |-> _format_js_date(doc.publish_date),
     doc_number |-> doc.doc_number,
     file_number |-> IF doc.doc_number # "" THEN "FN:" \o doc.doc_number ELSE ""]
        @@ Optional("office_unit", Strip(doc.office_unit))
        @@ Optional("pdf_url", pdf_url)

\* "文号：" is written "FN:".
_build_normative_record(doc, doc_type, cached_file_number, pdf_url) ==
    [title |-> doc.title, url |-> doc.url, doc_type |-> doc_type,
     validity |-> doc.validity, sign_date |-> _format_js_date(doc.sign_date),
     publish_date |-> _format_js_date(doc.publish_date),
     doc_number |-> doc.doc_number,
     file_number |-> IF cached_file_number # "" THEN cached_file_number
                     ELSE IF doc.doc_number # "" THEN "FN:" \o doc.doc_number
                     ELSE ""]
        @@ Optional("office_unit", Strip(doc.office_unit))
        @@ Optional("pdf_url", pdf_url)

_build_standard_record(doc, doc_type, pdf_url) ==
    [title |-> doc.title, url |-> doc.url, doc_type |-> doc_type,
     validity |-> doc.validity, publish_date |-> _format_js_date(doc.publish_date),
     doc_number |-> doc.doc_number, office_unit |-> doc.office_unit]
        @@ Optional("pdf_url", pdf_url)

\* The dict sync_js_files builds over rows: url -> field, for the rows where
\* both are not empty; a later row of a url replaces an earlier one.
FieldByUrl(rows, field) ==
    LET with == {i \in DOMAIN rows : /\ Strip(Get(rows[i], "url", "")) # ""
                                     /\ Strip(Get(rows[i], field, "")) # ""}
    IN [u \in {Strip(rows[i].url) : i \in with} |->
            Strip(rows[Max({i \in with : Strip(rows[i].url) = u})][field])]

\* records of sync_js_files for one category
BuildRecords(cat_id, docs, existing_rows, url_map, existing_file_number_by_url) ==
    LET doc_type == JS_EXPORT_CONFIG[cat_id].doc_type
        existing_pdf_url_by_url == FieldByUrl(existing_rows, "pdf_url")
        pdf_url(doc) == Get(url_map, doc.url, Get(existing_pdf_url_by_url, doc.url, ""))
    IN [i \in 1..Len(docs) |->
          CASE cat_id = "13" -> _build_regulation_record(docs[i], doc_type, pdf_url(docs[i]))
            [] cat_id = "14" ->
                 _build_normative_record(docs[i], doc_type,
                     Get(existing_file_number_by_url, docs[i].url, ""), pdf_url(docs[i]))
            [] OTHER -> _build_standard_record(docs[i], doc_type, pdf_url(docs[i]))]

KeepsRow(row, seen_urls) == Get(row, "url", "") = "" \/ Get(row, "url", "") \notin seen_urls

RECURSIVE Filter(_, _)
Filter(rows, seen_urls) ==
    IF rows = <<>> THEN <<>>
    ELSE IF KeepsRow(Head(rows), seen_urls)
         THEN <<Head(rows)>> \o Filter(Tail(rows), seen_urls)
         ELSE Filter(Tail(rows), seen_urls)

\* Variant of merged_records: the export holds the current fetch only.
merged_records_current_only(records, existing_rows) ==
    records

\* merged_records of sync_js_files
merged_records(records, existing_rows) ==
    LET seen_urls == {records[i].url : i \in {j \in DOMAIN records : records[j].url # ""}}
    IN records \o Filter(existing_rows, seen_urls)

----------------------------------------------------------------------------
(* SpecExport: runs of sync_js_files over the export files *)

\* The documents of one category in a fetch handed to sync_js_files.
\* The normative document B carries no document number.
ExportDocs(cat_id) ==
    {Document(cat_id, "A", "X", "valid"),
     [Document(cat_id, "B", "X", "valid") EXCEPT
        !.doc_number = IF cat_id = "14" THEN "" ELSE @]}

ExportCurrentSpace ==
    {m \in DocMaps({"13", "14"}, [c \in {"13", "14"} |-> ExportDocs(c)], MaxExportDocs) : TotalDocs(m) >= 1}

\* r2_url_map: CAAC page url -> R2 url
UrlMaps == {<<>>, "A" :> "R1"}

\* Document A as an earlier fetch saw it: under another title, the normative
\* document also under another document number.
EarlierDocument(cat_id) ==
    [Document(cat_id, "A", "Y", "valid") EXCEPT
        !.doc_number = IF cat_id = "14" THEN "N0" ELSE @]

\* Export files of earlier runs: none, or one row written for an earlier fetch
\* whose PDF was uploaded; for the regulations also the two rows of an earlier
\* fetch of two documents.
PriorExports(cat_id) ==
    {NoFile,
     Text(JsContent(BuildRecords(cat_id, <<EarlierDocument(cat_id)>>, <<>>,
                                 "A" :> "R0", <<>>),
                    JS_EXPORT_CONFIG[cat_id].export_name))}
    \cup
    (IF cat_id = "13"
     THEN {Text(JsContent(BuildRecords(cat_id, <<Document(cat_id, "C", "Y", "valid"),
                                                  Document(cat_id, "A", "Y", "valid")>>,
                                       <<>>, <<>>, <<>>),
                          JS_EXPORT_CONFIG[cat_id].export_name))}
     ELSE {})

InitExport ==
    /\ \E r \in PriorExports("13"), n \in PriorExports("14") :
          fs = [p \in JsPaths |->
                    CASE p = JsPath("13") -> r
                      [] p = JsPath("14") -> n
                      [] OTHER            -> NoFile]
    /\ current_documents \in ExportCurrentSpace
    /\ sync = [NoSync EXCEPT !.run = 1, !.committed = fs]
    /\ dl = NoDl
    /\ r2 = NoR2
    /\ pc = "start"
    /\ pending = NoPending
    /\ _state = None
    /\ changes = NoChanges
    /\ calls = <<>>

\* sync_js_files, up to the loop: the file numbers of the normative export.
SyncBegin(url_map) ==
    /\ pc = "start"
    /\ sync' = [sync EXCEPT
                  !.url_map = url_map,
                  !.existing_file_number_by_url =
                      FieldByUrl(_read_js_data(fs, JsPath("14")), "file_number"),
                  !.todo = ExportOrder]
    /\ pc' = "sync"
    /\ UNCHANGED <<fs, _state, current_documents, changes, pending, calls, dl, r2>>

\* The loop body is at a category, no write under way.
AtCategory(cat_id) ==
    /\ pc = "sync"
    /\ pending = NoPending
    /\ sync.todo # <<>>
    /\ cat_id = Head(sync.todo)

\* file_path.write_text(content) begins: the file is opened for writing, which
\* creates it or empties it.
BeginJsWrite(cat_id, records) ==
    /\ pending' = [NoPending EXCEPT
                     !.step = "write",
                     !.path = JsPath(cat_id),
                     !.data = JsContent(records, JS_EXPORT_CONFIG[cat_id].export_name)]
    /\ fs' = [fs EXCEPT ![JsPath(cat_id)] = Text(<<>>)]
    /\ UNCHANGED <<_state, current_documents, changes, pc, calls, sync, dl, r2>>

\* "if not docs: if existing_rows: ... continue"
KeepExisting ==
    \E cat_id \in DOMAIN JS_EXPORT_CONFIG :
        /\ AtCategory(cat_id)
        /\ Get(current_documents, cat_id, <<>>) = <<>>
        /\ _read_js_data(fs, JsPath(cat_id)) # <<>>
        /\ sync' = [sync EXCEPT !.todo = Tail(sync.todo)]
        /\ UNCHANGED <<fs, _state, current_documents, changes, pc, pending, calls, dl, r2>>

\* "if not docs: ... _write_js_data(file_path, [], export_name)"
WriteEmptyJs ==
    \E cat_id \in DOMAIN JS_EXPORT_CONFIG :
        /\ AtCategory(cat_id)
        /\ Get(current_documents, cat_id, <<>>) = <<>>
        /\ _read_js_data(fs, JsPath(cat_id)) = <<>>
        /\ BeginJsWrite(cat_id, <<>>)

\* "_write_js_data(file_path, merged_records, export_name)"
WriteMergedJs ==
    \E cat_id \in DOMAIN JS_EXPORT_CONFIG :
        /\ AtCategory(cat_id)
        /\ Get(current_documents, cat_id, <<>>) # <<>>
        /\ LET existing_rows == _read_js_data(fs, JsPath(cat_id))
               records == BuildRecords(cat_id, current_documents[cat_id], existing_rows,
                                       sync.url_map, sync.existing_file_number_by_url)
           IN BeginJsWrite(cat_id, merged_records(records, existing_rows))

\* write_text under way: a first part of the text has reached the file.
WriteJsPart ==
    /\ pc = "sync"
    /\ pending.step = "write"
    /\ fs[pending.path] = Text(<<>>)
    /\ \E k \in 1..(Len(pending.data) - 1) :
          fs' = [fs EXCEPT ![pending.path] = Text(SubSeq(pending.data, 1, k))]
    /\ UNCHANGED <<_state, current_documents, changes, pc, pending, calls, sync, dl, r2>>

\* write_text: the whole text has reached the file.
WriteJsRest ==
    /\ pc = "sync"
    /\ pending.step = "write"
    /\ fs' = [fs EXCEPT ![pending.path] = Text(pending.data)]
    /\ pending' = [pending EXCEPT !.step = "written"]
    /\ UNCHANGED <<_state, current_documents, changes, pc, calls, sync, dl, r2>>

\* write_text returns, and the loop goes to the next category.
WriteJsDone ==
    /\ pc = "sync"
    /\ pending.step = "written"
    /\ pending' = NoPending
    /\ sync' = [sync EXCEPT !.todo = Tail(sync.todo),
                            !.committed[pending.path] = fs[pending.path]]
    /\ UNCHANGED <<fs, _state, current_documents, changes, pc, calls, dl, r2>>

\* sync_js_files returns.
SyncEnd ==
    /\ pc = "sync"
    /\ pending = NoPending
    /\ sync.todo = <<>>
    /\ pc' = "done"
    /\ UNCHANGED <<fs, _state, current_documents, changes, pending, calls, sync, dl, r2>>

\* The process is interrupted during sync_js_files: the files stay as they are.
Interrupt ==
    /\ pc = "sync"
    /\ pc' = "dead"
    /\ UNCHANGED <<fs, _state, current_documents, changes, pending, calls, sync, dl, r2>>

\* The next run of the program, with its own fetch.
NextRun ==
    /\ pc \in {"done", "dead"}
    /\ sync.run < MaxRuns
    /\ current_documents' \in ExportCurrentSpace
    /\ sync' = [NoSync EXCEPT !.run = sync.run + 1, !.committed = sync.committed]
    /\ pending' = NoPending
    /\ pc' = "start"
    /\ UNCHANGED <<fs, _state, changes, calls, dl, r2>>

NextExport ==
    \/ \E url_map \in UrlMaps : SyncBegin(url_map)
    \/ KeepExisting
    \/ WriteEmptyJs
    \/ WriteMergedJs
    \/ WriteJsPart
    \/ WriteJsRest
    \/ WriteJsDone
    \/ SyncEnd
    \/ Interrupt
    \/ NextRun

SpecExport == InitExport /\ [][NextExport]_vars

----------------------------------------------------------------------------
(* The download sync of main: generate_filename, the loop over docs_to_sync *)

MaxSyncDocs == 2

\* crawler.DOWNLOAD_SUBDIRS, get_download_subdir
get_download_subdir(category_id) ==
    CASE category_id = "13" -> "regulation"
      [] category_id = "14" -> "normative"
      [] category_id = "15" -> "specification"
      [] OTHER              -> "other"

\* re.sub(r'[<>:"/\\|?*]', '_', text), on the names of the model
sanitize(text) ==
    CASE text = "X/" -> "X_"
      [] OTHER       -> text

\* str.lstrip("."), the leading dots taken off
RECURSIVE LStripDots(_)
LStripDots(text) ==
    IF text # "" /\ Head(text) = "." THEN LStripDots(Tail(text)) ELSE text

\* "".join(parts) of generate_filename: the validity prefix when the validity
\* is not "有效" (the model's "valid"), the document number, and the title or
\* "未命名文件" (the model's "unnamed").
NameParts(document) ==
    LET validity == Strip(document.validity)
        prefix == IF validity # "" /\ validity # "valid"
                  THEN sanitize(validity) \o "!" ELSE ""
        doc_number == sanitize(Strip(document.doc_number))
        title == sanitize(Strip(document.title))
    IN prefix \o doc_number \o (IF title # "" THEN title ELSE "unnamed")

\* ext_tail of generate_filename: the extension without its dots
ExtTail(extension) ==
    LET ext == Strip(extension)
    IN LStripDots(IF ext # "" /\ Head(ext) # "." THEN "." \o ext ELSE ext)

\* Variant of generate_filename: the name is never cut.
generate_filename_uncut(document, extension) ==
    IF ExtTail(extension) # ""
    THEN NameParts(document) \o "." \o ExtTail(extension)
    ELSE NameParts(document)

\* Variant of generate_filename: the name with its extension is cut as the
\* name without extension is, at 200 characters from the left.
generate_filename_cut_after(document, extension) ==
    LET base == NameParts(document)
    IN IF ExtTail(extension) # ""
       THEN SubSeq(base, 1, IF Len(base) > 200 THEN 200 ELSE Len(base))
                \o "." \o ExtTail(extension)
       ELSE SubSeq(base, 1, IF Len(base) > 200 THEN 200 ELSE Len(base))

\* crawler.generate_filename
generate_filename(document, extension) ==
    LET base == NameParts(document)
        ext_tail == ExtTail(extension)
        filename == IF ext_tail # "" THEN base \o "." \o ext_tail ELSE base
    IN IF Len(filename) > 200
       THEN IF ext_tail # ""
            THEN LET max_base_len == IF 200 - 4 - Len(ext_tail) > 1
                                     THEN 200 - 4 - Len(ext_tail) ELSE 1
                 IN SubSeq(base, 1, IF Len(base) < max_base_len THEN Len(base)
                                    ELSE max_base_len)
                        \o "...." \o ext_tail
            ELSE SubSeq(base, 1, 200)
       ELSE filename

\* os.path.join(base_dir, name), relative to download_dir
JoinPath(base_dir, name) == base_dir \o "/" \o name

\* f"{save_base_path}{ext}" tried in this order for a file already on disk
KNOWN_EXTENSIONS == <<".pdf", ".doc", ".docx", ".txt">>

\* The documents handed to the sync: _merge_documents keeps one document per
\* url. Document A is fetched under one of two titles, or superseded; document
\* B under its own title, or under the title and number of A.
SyncDocs ==
    {Document("13", "A", "X", "valid"), Document("13", "A", "Y", "valid"),
     Document("13", "A", "X", "superseded"), Document("13", "B", "Z", "valid"),
     Document("13", "B", "X", "valid")}

MaxTitleLen == 202

\* A text of n characters.
RECURSIVE Repeat(_, _)
Repeat(c, n) ==
    IF n = 0 THEN ""
    ELSE IF n % 2 = 0 THEN LET half == Repeat(c, n \div 2) IN half \o half
    ELSE c \o Repeat(c, n - 1)

\* A document whose name without extension has 198 characters: within the
\* 200 of generate_filename, beyond them with an extension.
LongNameDoc == Document("13", "C", Repeat("a", MaxTitleLen - 6), "valid")

\* Every document a loop of the sync can be at.
SyncedDocs == SyncDocs \cup {LongNameDoc}

\* The positions of a character in a text.
Positions(text, c) == {i \in 1..Len(text) : SubSeq(text, i, i) = c}

\* os.path.splitext(path)[1]: from the last dot of the last component on,
\* when a character other than a dot comes before it in the component.
splitext(path) ==
    LET sep == Max(Positions(path, "/") \cup {0})
        dots == {i \in Positions(path, ".") : i > sep}
    IN IF dots = {} THEN ""
       ELSE LET dot == Max(dots)
            IN IF \E k \in (sep + 1)..(dot - 1) : SubSeq(path, k, k) # "."
               THEN SubSeq(path, dot, Len(path))
               ELSE ""

\* os.path.exists, over the files of download_dir
on_disk(disk, path) == path \in DOMAIN disk

\* Variant of CanonicalPath: the extension is always .pdf.
CanonicalPathPdf(doc, old_path) ==
    JoinPath(get_download_subdir(doc.category_id), generate_filename(doc, ".pdf"))

\* new_path of the loop: the current name with the extension of the old file.
CanonicalPath(doc, old_path) ==
    LET ext == IF splitext(old_path) # "" THEN splitext(old_path) ELSE ".pdf"
    IN JoinPath(get_download_subdir(doc.category_id), generate_filename(doc, ext))

\* save_base_path of the loop
SaveBasePath(doc) ==
    JoinPath(get_download_subdir(doc.category_id), generate_filename(doc, ""))

\* old_path of the loop: "" when the index has no path for the url
OldPath(download_index, doc) ==
    Strip(Get(Get(download_index, doc.url, <<>>), "relative_path", ""))

\* Variant of ExistingLocal: the last candidate on disk is taken.
ExistingLocalLast(disk, doc) ==
    LET found == {i \in DOMAIN KNOWN_EXTENSIONS :
                     on_disk(disk, SaveBasePath(doc) \o KNOWN_EXTENSIONS[i])}
    IN IF found = {} THEN None
       ELSE [path |-> SaveBasePath(doc) \o KNOWN_EXTENSIONS[Max(found)]]

\* existing_local of the loop: the first candidate on disk, or None
ExistingLocal(disk, doc) ==
    LET found == {i \in DOMAIN KNOWN_EXTENSIONS :
                     on_disk(disk, SaveBasePath(doc) \o KNOWN_EXTENSIONS[i])}
    IN IF found = {} THEN None
       ELSE [path |-> SaveBasePath(doc) \o KNOWN_EXTENSIONS[Min(found)]]

IndexEntry(path) == [relative_path |-> path, updated_at |-> "t1"]

\* Variant of Branch: a file at the new name is overwritten by the move.
BranchMovingOver(download_index, disk, doc) ==
    LET old_path == OldPath(download_index, doc)
    IN IF old_path # "" /\ on_disk(disk, old_path)
       THEN IF old_path = CanonicalPath(doc, old_path) THEN "keep"
            ELSE "rename"
       ELSE IF ExistingLocal(disk, doc) # None THEN "adopt"
       ELSE "download"

\* Variant of Branch: a path in the index is trusted without a look at the disk.
BranchTrustingIndex(download_index, disk, doc) ==
    LET old_path == OldPath(download_index, doc)
    IN IF old_path # "" THEN "keep"
       ELSE IF ExistingLocal(disk, doc) # None THEN "adopt"
       ELSE "download"

\* The branch the loop body takes for a document.
Branch(download_index, disk, doc) ==
    LET old_path == OldPath(download_index, doc)
    IN IF old_path # "" /\ on_disk(disk, old_path)
       THEN IF old_path = CanonicalPath(doc, old_path) THEN "keep"
            ELSE IF on_disk(disk, CanonicalPath(doc, old_path)) THEN "remove_old"
            ELSE "rename"
       ELSE IF ExistingLocal(disk, doc) # None THEN "adopt"
       ELSE "download"

----------------------------------------------------------------------------
(* SpecDownload: one download sync over the index file and the local files *)

\* A file of download_dir: the document whose bytes it holds and the run that
\* wrote it.
FileOf(url, run) == [url |-> url, written |-> run]

\* The url of the document a file name of an earlier run belongs to.
OwnerOf(doc) == doc.url

\* Files earlier runs can have left: pdf or text files of the documents under
\* the names they had then.
EarlierFiles ==
    {[path |-> SaveBasePath(d) \o e, file |-> FileOf(OwnerOf(d), "earlier")] :
        d \in {Document("13", "A", "X", "valid"), Document("13", "A", "Y", "valid"),
               Document("13", "B", "Z", "valid")},
        e \in {".pdf", ".txt"}}

Disks ==
    {[p \in {f.path : f \in S} |-> (CHOOSE f \in S : f.path = p).file] :
        S \in {T \in SUBSET EarlierFiles : Cardinality(T) <= 2}}

\* Index records of earlier runs: a url maps to a file name of its document.
EarlierIndexes ==
    {[u \in {f.file.url : f \in S} |->
         [relative_path |-> (CHOOSE f \in S : f.file.url = u).path, updated_at |-> "t0"]] :
        S \in {T \in SUBSET EarlierFiles :
                  \A f, g \in T : f.file.url = g.file.url => f = g}}

\* docs_to_sync: at most MaxSyncDocs documents, one per url
SyncLists ==
    {l \in UNION {[1..k -> SyncDocs] : k \in 1..MaxSyncDocs} :
        \A i, j \in DOMAIN l : i # j => l[i].url # l[j].url}

InitDownload ==
    /\ \E xf \in {NoFile} \cup {JsonObject(IndexPayload(x)) : x \in EarlierIndexes} :
            fs = [p \in DataPaths |-> IF p = DOWNLOAD_INDEX_PATH THEN xf ELSE NoFile]
    /\ \E disk \in Disks, docs_to_sync \in SyncLists :
            dl = [download_index |-> <<>>, disk |-> disk, todo |-> docs_to_sync,
                  synced_count |-> 0, renamed_count |-> 0, failed_count |-> 0,
                  ops |-> <<>>, handled |-> <<>>]
    /\ pc = "start"
    /\ _state = None
    /\ current_documents = <<>>
    /\ changes = NoChanges
    /\ pending = NoPending
    /\ calls = <<>>
    /\ sync = NoSync
    /\ r2 = NoR2

\* download_index = storage.load_download_index(), the counters at 0
BeginSync ==
    /\ pc = "start"
    /\ dl' = [dl EXCEPT !.download_index = load_download_index(fs)]
    /\ pc' = "sync"
    /\ UNCHANGED <<fs, _state, current_documents, changes, pending, calls, sync, r2>>

\* The loop body is at document doc.
AtDoc(doc) ==
    /\ pc = "sync"
    /\ dl.todo # <<>>
    /\ doc = Head(dl.todo)

\* The loop body for a document whose file is on disk: the indexed file under
\* its name, renamed, or removed for the file at the new name; or a file found
\* at the expected name.
SyncLocal ==
    \E doc \in SyncedDocs :
      /\ AtDoc(doc)
      /\ LET branch == Branch(dl.download_index, dl.disk, doc)
             old_path == OldPath(dl.download_index, doc)
             new_path == CanonicalPath(doc, old_path)
             final_path == CASE branch = "keep"  -> old_path
                             [] branch = "adopt" -> ExistingLocal(dl.disk, doc).path
                             [] OTHER            -> new_path
             without_old == [p \in DOMAIN dl.disk \ {old_path} |-> dl.disk[p]]
         IN /\ branch \in {"keep", "rename", "remove_old", "adopt"}
            /\ dl' = [dl EXCEPT
                 !.disk = CASE branch = "rename"     -> (new_path :> dl.disk[old_path]) @@ without_old
                            [] branch = "remove_old" -> without_old
                            [] OTHER                 -> dl.disk,
                 !.ops = CASE branch = "rename" ->
                                Append(dl.ops, [op |-> "replace", path |-> old_path, to |-> new_path])
                           [] branch = "remove_old" ->
                                Append(dl.ops, [op |-> "remove", path |-> old_path, to |-> ""])
                           [] OTHER -> dl.ops,
                 !.download_index = (doc.url :> IndexEntry(final_path)) @@ dl.download_index,
                 !.renamed_count = IF branch \in {"rename", "remove_old"} THEN @ + 1 ELSE @,
                 !.synced_count = @ + 1,
                 !.handled = Append(@, [doc |-> doc, branch |-> branch, path |-> final_path]),
                 !.todo = Tail(@)]
      /\ UNCHANGED <<fs, _state, current_documents, changes, pc, pending, calls, sync, r2>>

\* os.replace or os.remove raises in the loop body: nothing in the loop catches
\* it, it ends the run in the handler of main.
FileOpFails ==
    \E doc \in SyncedDocs :
      /\ AtDoc(doc)
      /\ Branch(dl.download_index, dl.disk, doc) \in {"rename", "remove_old"}
      /\ dl' = [dl EXCEPT
           !.handled = Append(@, [doc |-> doc, branch |-> "file_op_failed", path |-> ""])]
      /\ pc' = "exited"
      /\ UNCHANGED <<fs, _state, current_documents, changes, pending, calls, sync, r2>>

\* Variant of DownloadResult: a failed download is recorded like a saved pdf.
DownloadResultRecordingFailure(d, doc, saved_ext) ==
    LET saved_path == SaveBasePath(doc) \o (IF saved_ext # "" THEN saved_ext ELSE ".pdf")
    IN [d EXCEPT
          !.disk = IF saved_ext # "" THEN (saved_path :> FileOf(doc.url, "now")) @@ @ ELSE @,
          !.ops = Append(@, [op |-> "download", path |-> doc.url, to |-> ""])
                    \o (IF saved_ext # "" THEN <<[op |-> "write", path |-> saved_path, to |-> ""]>>
                        ELSE <<>>),
          !.download_index = (doc.url :> IndexEntry(saved_path)) @@ @,
          !.synced_count = @ + 1,
          !.handled = Append(@, [doc |-> doc, branch |-> "download", path |-> saved_path]),
          !.todo = Tail(@)]

\* The loop body from the call of download_document_file on: a saved path is
\* recorded in the index and counted as synced, None is counted as failed.
DownloadResult(d, doc, saved_ext) ==
    LET saved_path == SaveBasePath(doc) \o saved_ext
        called == Append(d.ops, [op |-> "download", path |-> doc.url, to |-> ""])
    IN IF saved_ext # ""
       THEN [d EXCEPT
              !.disk = (saved_path :> FileOf(doc.url, "now")) @@ @,
              !.ops = Append(called, [op |-> "write", path |-> saved_path, to |-> ""]),
              !.download_index = (doc.url :> IndexEntry(saved_path)) @@ @,
              !.synced_count = @ + 1,
              !.handled = Append(@, [doc |-> doc, branch |-> "download", path |-> saved_path]),
              !.todo = Tail(@)]
       ELSE [d EXCEPT
              !.ops = called,
              !.failed_count = @ + 1,
              !.handled = Append(@, [doc |-> doc, branch |-> "download_failed", path |-> ""]),
              !.todo = Tail(@)]

\* crawler.download_document_file(doc, save_base_path): the attachment saved
\* under its extension, the page text saved as .txt, or None (saved_ext "").
SyncDownload(saved_ext) ==
    \E doc \in SyncedDocs :
      /\ AtDoc(doc)
      /\ Branch(dl.download_index, dl.disk, doc) = "download"
      /\ dl' = DownloadResult(dl, doc, saved_ext)
      /\ UNCHANGED <<fs, _state, current_documents, changes, pc, pending, calls, sync, r2>>

\* storage.save_download_index(download_index) after the loop
SaveIndex ==
    /\ pc = "sync"
    /\ dl.todo = <<>>
    /\ fs' = [fs EXCEPT ![DOWNLOAD_INDEX_PATH] = JsonObject(IndexPayload(dl.download_index))]
    /\ pc' = "saved"
    /\ UNCHANGED <<_state, current_documents, changes, pending, calls, sync, dl, r2>>

\* The index cannot be written: atomic_write_json raises and main ends the run.
SaveIndexFails ==
    /\ pc = "sync"
    /\ dl.todo = <<>>
    /\ pc' = "exited"
    /\ UNCHANGED <<fs, _state, current_documents, changes, pending, calls, sync, dl, r2>>

NextDownload ==
    \/ BeginSync
    \/ SyncLocal
    \/ FileOpFails
    \/ \E saved_ext \in {".pdf", ".txt", ""} : SyncDownload(saved_ext)
    \/ SaveIndex
    \/ SaveIndexFails

SpecDownload == InitDownload /\ [][NextDownload]_vars

----------------------------------------------------------------------------
(* R2Uploader.upload_downloads; SpecUpload: two runs of it over the cache *)

\* File sizes in bytes.
FileSizes == {2048, 4096}

\* R2Uploader._build_public_url(r2_key)
_build_public_url(r2_key) == "https://r2/" \o r2_key

\* R2Uploader._load_r2_index: the records of the file, {} when the file is
\* missing or cannot be read as an object.
_load_r2_index(files) ==
    LET content == files[R2_INDEX_PATH]
    IN IF content.kind = "json" /\ content.top = "object"
       THEN Get(content.value, "records", <<>>)
       ELSE <<>>

\* rel_path.lower().endswith(".pdf"), on the paths of the model
IsPdf(rel_path) == rel_path \in {"regulation/N1X.pdf", "regulation/N1Z.pdf"}

\* The download index handed to upload_downloads: two pdf files and a text file.
UploadIndex ==
    ("A" :> [relative_path |-> "regulation/N1X.pdf", updated_at |-> "t0"]) @@
    ("B" :> [relative_path |-> "regulation/N1Z.pdf", updated_at |-> "t0"]) @@
    ("D" :> [relative_path |-> "regulation/N1W.txt", updated_at |-> "t0"])

\* download_index.items(), in the order of the file
UploadOrder == <<"A", "B", "D">>

CacheRecord(r2_url, file_size) == [r2_url |-> r2_url, file_size |-> file_size]

\* Variant of CacheHit: a cached record is trusted whatever its size.
CacheHitAnySize(r2_index, rel_path, file_size) ==
    rel_path \in DOMAIN r2_index

\* "cached_record and cached_record.get('file_size') == file_size"
CacheHit(r2_index, rel_path, file_size) ==
    /\ rel_path \in DOMAIN r2_index
    /\ Get(r2_index[rel_path], "file_size", 0) = file_size

\* Variant of AfterUpload: a failed upload drops the cached url.
AfterUploadDroppingCache(r, caac_url, rel_path, file_size, ok) ==
    IF ok
    THEN [r EXCEPT
            !.puts = Append(@, [path |-> rel_path, ok |-> ok]),
            !.r2_url_map = (caac_url :> _build_public_url(rel_path)) @@ @,
            !.r2_index = (rel_path :> CacheRecord(_build_public_url(rel_path), file_size)) @@ @,
            !.uploaded = @ + 1,
            !.todo = Tail(@)]
    ELSE [r EXCEPT
            !.puts = Append(@, [path |-> rel_path, ok |-> ok]),
            !.r2_index = [p \in DOMAIN @ \ {rel_path} |-> @[p]],
            !.failed = @ + 1,
            !.todo = Tail(@)]

\* The loop body from the call of upload_file on: ok is whether it returned a
\* url.
AfterUpload(r, caac_url, rel_path, file_size, ok) ==
    IF ok
    THEN [r EXCEPT
            !.puts = Append(@, [path |-> rel_path, ok |-> ok]),
            !.r2_url_map = (caac_url :> _build_public_url(rel_path)) @@ @,
            !.r2_index = (rel_path :> CacheRecord(_build_public_url(rel_path), file_size)) @@ @,
            !.uploaded = @ + 1,
            !.todo = Tail(@)]
    ELSE IF rel_path \in DOMAIN r.r2_index
    THEN [r EXCEPT
            !.puts = Append(@, [path |-> rel_path, ok |-> ok]),
            !.r2_url_map = (caac_url :> r.r2_index[rel_path].r2_url) @@ @,
            !.cached = @ + 1,
            !.todo = Tail(@)]
    ELSE [r EXCEPT
            !.puts = Append(@, [path |-> rel_path, ok |-> ok]),
            !.failed = @ + 1,
            !.todo = Tail(@)]

\* The cache files earlier runs can have left: none, an unreadable one, or
\* records of uploads of the pdf files at some size.
EarlierCaches ==
    {NoFile, Garbage} \cup
    {JsonObject(IndexPayload(
        [p \in D |-> CacheRecord("https://r2/old/" \o p, sizes[p])])) :
            D \in SUBSET {"regulation/N1X.pdf", "regulation/N1Z.pdf"},
            sizes \in [{"regulation/N1X.pdf", "regulation/N1Z.pdf"} -> FileSizes]}

\* The local files: some of the indexed files, each with its size.
UploadDisks ==
    UNION {[D -> FileSizes] :
              D \in SUBSET {"regulation/N1X.pdf", "regulation/N1Z.pdf", "regulation/N1W.txt"}}

\* The locals of upload_downloads at its start. puts lists the upload_file
\* calls made and whether each returned a url; cache0 is the cache as loaded;
\* returned tells that the call has returned its url map; first keeps what the
\* first run did, for the second.
NewMirror(run, first) ==
    [run |-> run, r2_index |-> <<>>, r2_url_map |-> <<>>, todo |-> <<>>,
     uploaded |-> 0, cached |-> 0, skipped |-> 0, failed |-> 0, puts |-> <<>>,
     cache0 |-> <<>>, returned |-> FALSE, first |-> first]

InitUpload ==
    /\ \E cf \in EarlierCaches :
            fs = [p \in DataPaths |-> IF p = R2_INDEX_PATH THEN cf ELSE NoFile]
    /\ \E disk \in UploadDisks : dl = [download_index |-> UploadIndex, disk |-> disk]
    /\ r2 = NewMirror(1, None)
    /\ pc = "start"
    /\ _state = None
    /\ current_documents = <<>>
    /\ changes = NoChanges
    /\ pending = NoPending
    /\ calls = <<>>
    /\ sync = NoSync

\* upload_downloads, up to the loop: the cache is loaded.
BeginMirror ==
    /\ pc = "start"
    /\ r2' = [r2 EXCEPT !.r2_index = _load_r2_index(fs), !.cache0 = _load_r2_index(fs),
                         !.todo = UploadOrder]
    /\ pc' = "mirror"
    /\ UNCHANGED <<fs, _state, current_documents, changes, pending, calls, sync, dl>>

\* The loop body is at the index entry of caac_url.
AtEntry(caac_url) ==
    /\ pc = "mirror"
    /\ r2.todo # <<>>
    /\ caac_url = Head(r2.todo)

\* "continue" for an entry that is no pdf file on disk
MirrorSkip ==
    \E caac_url \in DOMAIN UploadIndex :
      /\ AtEntry(caac_url)
      /\ LET rel_path == Strip(dl.download_index[caac_url].relative_path)
         IN ~IsPdf(rel_path) \/ ~on_disk(dl.disk, rel_path)
      /\ r2' = [r2 EXCEPT !.skipped = @ + 1, !.todo = Tail(@)]
      /\ UNCHANGED <<fs, _state, current_documents, changes, pc, pending, calls, sync, dl>>

\* The cached url is taken: the file has the size of the cached record.
MirrorCached ==
    \E caac_url \in DOMAIN UploadIndex :
      /\ AtEntry(caac_url)
      /\ LET rel_path == Strip(dl.download_index[caac_url].relative_path)
         IN /\ IsPdf(rel_path) /\ on_disk(dl.disk, rel_path)
            /\ CacheHit(r2.r2_index, rel_path, dl.disk[rel_path])
            /\ r2' = [r2 EXCEPT
                 !.r2_url_map = (caac_url :> r2.r2_index[rel_path].r2_url) @@ @,
                 !.cached = @ + 1,
                 !.todo = Tail(@)]
      /\ UNCHANGED <<fs, _state, current_documents, changes, pc, pending, calls, sync, dl>>

\* upload_file(local_path, rel_path) is called and returns a url or None.
MirrorUpload(ok) ==
    \E caac_url \in DOMAIN UploadIndex :
      /\ AtEntry(caac_url)
      /\ LET rel_path == Strip(dl.download_index[caac_url].relative_path)
         IN /\ IsPdf(rel_path) /\ on_disk(dl.disk, rel_path)
            /\ ~CacheHit(r2.r2_index, rel_path, dl.disk[rel_path])
            /\ r2' = AfterUpload(r2, caac_url, rel_path, dl.disk[rel_path], ok)
      /\ UNCHANGED <<fs, _state, current_documents, changes, pc, pending, calls, sync, dl>>

\* Variant of SavesIndex: the cache is saved at the end of every call.
SavesIndexAlways(r) ==
    TRUE

\* "if uploaded > 0" of upload_downloads
SavesIndex(r) ==
    r.uploaded > 0

\* After the loop: "if uploaded > 0: self._save_r2_index(...)", and the url map
\* is returned.
EndMirror ==
    /\ pc = "mirror"
    /\ r2.todo = <<>>
    /\ fs' = IF SavesIndex(r2)
             THEN [fs EXCEPT ![R2_INDEX_PATH] = JsonObject(IndexPayload(r2.r2_index))]
             ELSE fs
    /\ r2' = [r2 EXCEPT !.returned = TRUE]
    /\ pc' = "mirrored"
    /\ UNCHANGED <<_state, current_documents, changes, pending, calls, sync, dl>>

\* _save_r2_index raises: upload_downloads returns no map, main logs the
\* failure and goes on without the urls.
EndMirrorSaveFails ==
    /\ pc = "mirror"
    /\ r2.todo = <<>>
    /\ SavesIndex(r2)
    /\ pc' = "mirrored"
    /\ UNCHANGED <<fs, _state, current_documents, changes, pending, calls, sync, dl, r2>>

UploadPaths == {UploadIndex[u].relative_path : u \in DOMAIN UploadIndex}

\* The next run: the local files are as they were but for the sizes of the
\* files in changed, which a new download has replaced.
NextMirror(changed) ==
    /\ pc = "mirrored"
    /\ r2.run = 1
    /\ changed \subseteq DOMAIN dl.disk
    /\ dl' = [dl EXCEPT !.disk = [p \in DOMAIN @ |->
                  IF p \in changed THEN (CHOOSE z \in FileSizes : z # @[p]) ELSE @[p]]]
    /\ r2' = NewMirror(2, [puts |-> r2.puts, disk |-> dl.disk, cache0 |-> r2.cache0,
                           persisted |-> r2.returned])
    /\ pc' = "start"
    /\ UNCHANGED <<fs, _state, current_documents, changes, pending, calls, sync>>

NextUpload ==
    \/ BeginMirror
    \/ MirrorSkip
    \/ MirrorCached
    \/ \E ok \in BOOLEAN : MirrorUpload(ok)
    \/ EndMirror
    \/ EndMirrorSaveFails
    \/ \E changed \in SUBSET UploadPaths : NextMirror(changed)

SpecUpload == InitUpload /\ [][NextUpload]_vars

----------------------------------------------------------------------------
(* SpecTransfer: the network requests of the downloads and of the uploads *)

MaxTransferDocs == 2

\* retry_count of CaacCrawler._fetch_with_browser
retry_count == 3

TransferUrls == {"A", "B"}

\* One network request in the log: the document, the kind of request (the
\* detail page, the GET of the attachment, the PUT to the object store), the
\* number of the attempt from 0 and the seconds slept after a failure.
Request(url, kind, attempt, slept) ==
    [url |-> url, kind |-> kind, attempt |-> attempt, slept |-> slept]

\* What is recorded for a document: by the loop of main for a download
\* ("saved", "failed"), by upload_downloads for an upload ("uploaded", "failed").
Outcome(url, kind, result) == [url |-> url, kind |-> kind, result |-> result]

\* Variant of Backoff: the sleep follows every failed attempt.
BackoffAfterEach(attempt) == 2 ^ attempt

\* time.sleep(2 ** attempt) "if attempt < retry_count - 1"
Backoff(attempt) == IF attempt < retry_count - 1 THEN 2 ^ attempt ELSE 0

TransferLists ==
    {l \in UNION {[1..k -> TransferUrls] : k \in 1..MaxTransferDocs} :
        \A i, j \in DOMAIN l : i # j => l[i] # l[j]}

InitTransfer ==
    /\ \E l \in TransferLists :
          dl = [todo |-> l, stage |-> "page", attempt |-> 0, link |-> FALSE,
                pdfs |-> <<>>, results |-> <<>>]
    /\ calls = <<>>
    /\ pc = "download"
    /\ fs = [p \in DataPaths |-> NoFile]
    /\ _state = None
    /\ current_documents = <<>>
    /\ changes = NoChanges
    /\ pending = NoPending
    /\ sync = NoSync
    /\ r2 = NoR2

\* The loop of main goes to the next document with result recorded for url.
NextDocument(d, url, kind, result) ==
    [d EXCEPT !.todo = Tail(@), !.stage = "page", !.attempt = 0, !.link = FALSE,
              !.results = Append(@, Outcome(url, kind, result))]

\* One pass of the loop of _fetch_with_browser for the detail page: the content
\* is returned, or the failure is caught and the next attempt follows the
\* sleep; after retry_count failures "" is returned and download_document_file
\* returns None.
FetchPage(ok) ==
    /\ pc = "download"
    /\ dl.todo # <<>>
    /\ dl.stage = "page"
    /\ dl.attempt < retry_count
    /\ calls' = Append(calls, Request(Head(dl.todo), "page", dl.attempt,
                                       IF ok THEN 0 ELSE Backoff(dl.attempt)))
    /\ dl' = IF ok THEN [dl EXCEPT !.stage = "link"]
             ELSE IF dl.attempt + 1 < retry_count THEN [dl EXCEPT !.attempt = @ + 1]
             ELSE NextDocument(dl, Head(dl.todo), "page", "failed")
    /\ UNCHANGED <<fs, _state, current_documents, changes, pc, pending, sync, r2>>

\* _find_attachment_link: the page has a link to an attachment or has none.
FindLink(found) ==
    /\ pc = "download"
    /\ dl.todo # <<>>
    /\ dl.stage = "link"
    /\ dl' = [dl EXCEPT !.stage = IF found THEN "get" ELSE "text", !.link = found]
    /\ UNCHANGED <<fs, _state, current_documents, changes, pc, pending, calls, sync, r2>>

\* _download_binary_file: one GET; a status other than 200, a file too small
\* or an exception return False and download_document_file falls back to the
\* text of the page.
GetAttachment(ok) ==
    /\ pc = "download"
    /\ dl.todo # <<>>
    /\ dl.stage = "get"
    /\ calls' = Append(calls, Request(Head(dl.todo), "get", 0, 0))
    /\ dl' = IF ok
             THEN [NextDocument(dl, Head(dl.todo), "get", "saved")
                      EXCEPT !.pdfs = Append(@, Head(dl.todo))]
             ELSE [dl EXCEPT !.stage = "text"]
    /\ UNCHANGED <<fs, _state, current_documents, changes, pc, pending, sync, r2>>

\* _extract_and_save_text_content from the page already fetched: the text is
\* saved as .txt, or nothing is saved and download_document_file returns None.
ExtractText(ok) ==
    /\ pc = "download"
    /\ dl.todo # <<>>
    /\ dl.stage = "text"
    /\ dl' = NextDocument(dl, Head(dl.todo), IF dl.link THEN "get" ELSE "text",
                          IF ok THEN "saved_text" ELSE "failed")
    /\ UNCHANGED <<fs, _state, current_documents, changes, pc, pending, calls, sync, r2>>

\* After the loop of main: upload_downloads goes over the pdf files saved.
BeginUploads ==
    /\ pc = "download"
    /\ dl.todo = <<>>
    /\ dl' = [dl EXCEPT !.todo = dl.pdfs, !.stage = "put"]
    /\ pc' = "upload"
    /\ UNCHANGED <<fs, _state, current_documents, changes, pending, calls, sync, r2>>

\* upload_file: one PUT; any exception is caught and None is returned, which
\* upload_downloads counts as failed.
PutObject(ok) ==
    /\ pc = "upload"
    /\ dl.todo # <<>>
    /\ calls' = Append(calls, Request(Head(dl.todo), "put", 0, 0))
    /\ dl' = [dl EXCEPT !.todo = Tail(@),
                        !.results = Append(@, Outcome(Head(dl.todo), "put",
                                                      IF ok THEN "uploaded" ELSE "failed"))]
    /\ UNCHANGED <<fs, _state, current_documents, changes, pc, pending, sync, r2>>

\* upload_downloads returns.
EndUploads ==
    /\ pc = "upload"
    /\ dl.todo = <<>>
    /\ pc' = "transferred"
    /\ UNCHANGED <<fs, _state, current_documents, changes, pending, calls, sync, dl, r2>>

NextTransfer ==
    \/ \E ok \in BOOLEAN : FetchPage(ok)
    \/ \E found \in BOOLEAN : FindLink(found)
    \/ \E ok \in BOOLEAN : GetAttachment(ok)
    \/ \E ok \in BOOLEAN : ExtractText(ok)
    \/ BeginUploads
    \/ \E ok \in BOOLEAN : PutObject(ok)
    \/ EndUploads

SpecTransfer == InitTransfer /\ [][NextTransfer]_vars

\* The loops are sequential code: a step that can be taken is taken.
SpecTransferFair == SpecTransfer /\ WF_vars(NextTransfer)

----------------------------------------------------------------------------
(* SpecRun: one run of main, from the fetch to the exit code *)

MaxRows == 2

\* DEFAULT_MAX_DAYS of main
DEFAULT_MAX_DAYS == 30

\* The categories of --categories in the runs of the model.
category_ids == {"13", "14"}

\* The files a run reads and writes.
RunPaths == DataPaths \cup JsPaths

\* A row of a list page: the text and the href of its link and its date cell.
PageRow(title, href, date) == [title |-> title, href |-> href, date |-> date]

\* The rows a list page of a category can hold. The page of the regulations can
\* list a document twice, list it under a new title, list a document published
\* long ago, and hold a row whose link has no text.
PageRows(cat_id) ==
    IF cat_id = "13"
    THEN {PageRow("X", "A", "2024-01-15"), PageRow("Y", "A", "2024-01-15"),
          PageRow("X", "B", "2024-01-30"), PageRow("X", "B", "2023-01-15"),
          PageRow("", "C", "2024-01-30")}
    ELSE {PageRow("X", "D", "2024-01-30")}

\* The list pages: "" (no rows) when the page could not be fetched.
Pages(cat_id) ==
    UNION {[1..k -> PageRows(cat_id)] : k \in 0..(IF cat_id = "13" THEN MaxRows ELSE 1)}

\* CaacCrawler._parse_list_page: one Document per row with a link text, in the
\* order of the rows; nothing is compared between rows.
_parse_list_page(rows, category_id) ==
    LET titled == SelectSeq(rows, LAMBDA r : r.title # "")
    IN [i \in DOMAIN titled |->
           [Document(category_id, titled[i].href, titled[i].title, "valid")
               EXCEPT !.publish_date = titled[i].date]]

\* CaacCrawler.fetch_all_categories: results[cat_id] = fetch_category(cat_id)
fetch_all_categories(pages) ==
    [c \in DOMAIN pages |-> _parse_list_page(pages[c], c)]

\* The dates of the model in their order as strings; the run is on 2024-01-31.
DateRank(date) ==
    CASE date = "2023-01-15" -> 1
      [] date = "2024-01-01" -> 2
      [] date = "2024-01-15" -> 3
      [] date = "2024-01-24" -> 4
      [] date = "2024-01-30" -> 5

\* (datetime.now() - timedelta(days=days)).strftime("%Y-%m-%d")
cutoff_str(days) == IF days = DEFAULT_MAX_DAYS THEN "2024-01-01" ELSE "2024-01-24"

\* storage.filter_by_days
filter_by_days(documents, days) ==
    IF days <= 0 THEN documents
    ELSE SelectSeq(documents,
                   LAMBDA doc : /\ Strip(doc.publish_date) # ""
                                /\ DateRank(Strip(doc.publish_date)) >= DateRank(cutoff_str(days)))

\* The loop "for cat_id, docs in ...: filtered = filter_by_days(docs, days);
\* if filtered: result[cat_id] = filtered"
FilterEach(documents, days) ==
    [c \in {x \in DOMAIN documents : filter_by_days(documents[x], days) # <<>>} |->
        filter_by_days(documents[c], days)]

\* The documents of a list whose url no earlier document of the list has.
RECURSIVE FirstByUrl(_, _)
FirstByUrl(docs, seen) ==
    IF docs = <<>> THEN <<>>
    ELSE IF Head(docs).url \in seen THEN FirstByUrl(Tail(docs), seen)
    ELSE <<Head(docs)>> \o FirstByUrl(Tail(docs), seen \cup {Head(docs).url})

\* main._merge_documents(first, second)
_merge_documents(first, second) ==
    [c \in DOMAIN first \cup DOMAIN second |->
        FirstByUrl(Get(first, c, <<>>) \o Get(second, c, <<>>), {})]

\* main._flatten_documents
_flatten_documents(documents_by_category) ==
    ConcatLists(documents_by_category, DOMAIN documents_by_category)

\* ChangeResult.has_changes
has_changes(result) == TotalDocs(result.new_documents) + TotalDocs(result.updated_documents) > 0

\* Variant of NothingFetched: the fetch is never taken for blocked.
NothingFetchedNever(all_documents) ==
    FALSE

\* "total_docs == 0" of main
NothingFetched(all_documents) ==
    TotalDocs(all_documents) = 0

\* Variant of WritesState: --dry-run is not looked at.
WritesStateAlways(args) ==
    TRUE

\* "if not args.dry_run" before each update_state of main
WritesState(args) ==
    ~args.dry_run

\* One category of sync_js_files, as one write of its export file.
ExportFile(files, cat_id, all_documents, url_map, existing_file_number_by_url) ==
    LET docs == Get(all_documents, cat_id, <<>>)
        existing_rows == _read_js_data(files, JsPath(cat_id))
        export_name == JS_EXPORT_CONFIG[cat_id].export_name
    IN IF docs = <<>>
       THEN IF existing_rows # <<>> THEN files[JsPath(cat_id)]
            ELSE Text(JsContent(<<>>, export_name))
       ELSE Text(JsContent(
                merged_records(BuildRecords(cat_id, docs, existing_rows, url_map,
                                            existing_file_number_by_url),
                               existing_rows),
                export_name))

\* storage.sync_js_files(all_documents, "JS", r2_url_map): the files it leaves.
sync_js_files(files, all_documents, url_map) ==
    LET numbers == FieldByUrl(_read_js_data(files, JsPath("14")), "file_number")
    IN [p \in DOMAIN files |->
           IF \E c \in DOMAIN JS_EXPORT_CONFIG : p = JsPath(c)
           THEN ExportFile(files, CHOOSE c \in DOMAIN JS_EXPORT_CONFIG : p = JsPath(c),
                           all_documents, url_map, numbers)
           ELSE files[p]]

\* The state files a run can find: none, the snapshot of a run that fetched
\* document A under the title X, or a file that is no JSON.
RunSnapshots ==
    {NoFile, Garbage,
     JsonObject(SaveData(UpdatedState("13" :> <<Document("13", "A", "X", "valid")>>)))}

\* The command line: --days (0 for the incremental mode), --notify, --dry-run,
\* --no-download, --no-notify; and whether the object store is configured.
RunArgs ==
    [days : {0, 7}, notify : {0, 1}, dry_run : BOOLEAN, no_download : BOOLEAN,
     no_notify : BOOLEAN, r2_enabled : BOOLEAN]

\* The locals of main: exit_code, target_documents, download_documents,
\* r2_url_map; writes lists the stores written, in order; initial holds the
\* files as the run found them.
InitRun ==
    /\ \E snapshot \in RunSnapshots :
          fs = [p \in RunPaths |-> IF p = DATA_PATH THEN snapshot ELSE NoFile]
    /\ \E args \in RunArgs, regs \in Pages("13"), norms \in Pages("14") :
          sync = [args |-> args, pages |-> ("13" :> regs) @@ ("14" :> norms),
                  exit_code |-> 0, target_documents |-> <<>>,
                  download_documents |-> <<>>, r2_url_map |-> <<>>,
                  writes |-> <<>>, initial |-> fs]
    /\ pc = "start"
    /\ _state = None
    /\ current_documents = <<>>
    /\ changes = NoChanges
    /\ pending = NoPending
    /\ calls = <<>>
    /\ dl = NoDl
    /\ r2 = NoR2

\* A component is called with documents.
Called(component, documents) == [component |-> component, documents |-> documents]

\* main returns code.
Return(code) ==
    /\ pc' = "returned"
    /\ sync' = [sync EXCEPT !.exit_code = code]

\* storage.update_state(all_documents) and what it leaves in the log.
StateFileAfter(files, all_documents) ==
    [files EXCEPT ![DATA_PATH] = JsonObject(SaveData(UpdatedState(all_documents)))]

\* Step 1: the fetch; "if total_docs == 0: return 1".
RunFetch ==
    /\ pc = "start"
    /\ current_documents' = fetch_all_categories(sync.pages)
    /\ IF NothingFetched(current_documents')
       THEN Return(1)
       ELSE pc' = "filter" /\ sync' = sync
    /\ UNCHANGED <<fs, _state, changes, pending, calls, dl, r2>>

\* Step 2 with --days: the documents of the last days are the targets and the
\* documents to download; with none of them the run returns 0.
RunFilterByDays ==
    /\ pc = "filter"
    /\ sync.args.days > 0
    /\ LET filtered_documents == FilterEach(current_documents, sync.args.days)
       IN IF TotalDocs(filtered_documents) = 0
          THEN Return(0)
          ELSE /\ pc' = "download"
               /\ sync' = [sync EXCEPT !.target_documents = filtered_documents,
                                       !.download_documents = filtered_documents]
    /\ UNCHANGED <<fs, _state, current_documents, changes, pending, calls, dl, r2>>

\* Step 2 in the incremental mode: detect_changes, the two early returns with
\* their update_state, the 30-day cap on the new documents and the merge of the
\* capped new documents with the updated ones.
RunDetect ==
    /\ pc = "filter"
    /\ sync.args.days = 0
    /\ LET l == load(_state, fs)
           result == detect_changes(l.state.documents, current_documents)
           target == FilterEach(result.new_documents, DEFAULT_MAX_DAYS)
           merged == _merge_documents(target, result.updated_documents)
           nothing_left == ~has_changes(result)
                              \/ (TotalDocs(target) = 0 /\ TotalDocs(result.updated_documents) = 0)
           detected == Append(calls, Called("detect_changes", current_documents))
       IN /\ _state' = l.state
          /\ changes' = result
          /\ IF nothing_left /\ sync.args.notify = 0
             THEN /\ pc' = "returned"
                  /\ IF WritesState(sync.args)
                     THEN /\ fs' = StateFileAfter(l.fs, current_documents)
                          /\ calls' = Append(detected, Called("update_state", current_documents))
                          /\ sync' = [sync EXCEPT !.writes = Append(@, "snapshot"),
                                                  !.download_documents =
                                                      IF has_changes(result) THEN merged ELSE <<>>]
                     ELSE /\ fs' = l.fs
                          /\ calls' = detected
                          /\ sync' = [sync EXCEPT !.download_documents =
                                                      IF has_changes(result) THEN merged ELSE <<>>]
             ELSE /\ pc' = "download"
                  /\ fs' = l.fs
                  /\ calls' = detected
                  /\ sync' = [sync EXCEPT
                                !.target_documents = IF nothing_left THEN <<>> ELSE target,
                                !.download_documents =
                                    IF has_changes(result) THEN merged ELSE <<>>]
    /\ UNCHANGED <<current_documents, pending, dl, r2>>

\* Step 3: the download sync over docs_to_sync and the save of the index; the
\* documents of saved get their file, the others count as failed.
RunDownload ==
    /\ pc = "download"
    /\ LET docs_to_sync == _flatten_documents(sync.download_documents)
       IN IF sync.args.no_download \/ docs_to_sync = <<>>
          THEN UNCHANGED <<fs, calls, sync>>
          ELSE \E saved \in SUBSET {docs_to_sync[i].url : i \in DOMAIN docs_to_sync} :
                 LET download_index == load_download_index(fs)
                     entries == [u \in saved |->
                                   LET doc == docs_to_sync[CHOOSE i \in DOMAIN docs_to_sync :
                                                              docs_to_sync[i].url = u]
                                   IN IndexEntry(SaveBasePath(doc) \o ".pdf")]
                 IN /\ calls' = Append(calls, Called("download_sync", docs_to_sync))
                    /\ fs' = [fs EXCEPT ![DOWNLOAD_INDEX_PATH] =
                                  JsonObject(IndexPayload(entries @@ download_index))]
                    /\ sync' = [sync EXCEPT !.writes = Append(@, "download_index")]
    /\ pc' = "mirror"
    /\ UNCHANGED <<_state, current_documents, changes, pending, dl, r2>>

\* Step 4: upload_downloads when the object store is configured: it uploads the
\* indexed files and saves its cache, or uploads nothing, or raises, which main
\* logs as non-fatal.
RunMirror ==
    /\ pc = "mirror"
    /\ IF sync.args.r2_enabled /\ ~sync.args.no_download
       THEN \E uploaded \in BOOLEAN :
              LET download_index == load_download_index(fs)
                  cache == [p \in {download_index[u].relative_path : u \in DOMAIN download_index} |->
                               CacheRecord(_build_public_url(p), 2048)]
              IN IF uploaded /\ DOMAIN download_index # {}
                 THEN /\ fs' = [fs EXCEPT ![R2_INDEX_PATH] = JsonObject(IndexPayload(cache))]
                      /\ sync' = [sync EXCEPT
                                    !.writes = Append(@, "upload_cache"),
                                    !.r2_url_map = [u \in DOMAIN download_index |->
                                        _build_public_url(download_index[u].relative_path)]]
                 ELSE UNCHANGED <<fs, sync>>
       ELSE UNCHANGED <<fs, sync>>
    /\ pc' = "export"
    /\ UNCHANGED <<_state, current_documents, changes, pending, calls, dl, r2>>

\* Step 5: storage.sync_js_files(all_documents, "JS", r2_url_map)
RunExport ==
    /\ pc = "export"
    /\ fs' = sync_js_files(fs, current_documents, sync.r2_url_map)
    /\ calls' = Append(calls, Called("sync_js_files", current_documents))
    /\ sync' = [sync EXCEPT !.writes = Append(@, "export")]
    /\ pc' = "notify"
    /\ UNCHANGED <<_state, current_documents, changes, pending, dl, r2>>

\* Step 6: the notification, skipped with --no-notify and, with --notify 0,
\* without targets. send_all catches the failure of each channel; when every
\* channel failed the exit code becomes 1 and the run goes on.
RunNotify(results) ==
    /\ pc = "notify"
    /\ IF sync.args.no_notify
          \/ (sync.args.notify = 0 /\ TotalDocs(sync.target_documents) = 0)
       THEN results = "skipped" /\ UNCHANGED <<calls, sync>>
       ELSE /\ results \in {"no_channels", "some_succeeded", "all_failed"}
            /\ calls' = Append(calls, [component |-> "send_all",
                                       documents |-> sync.target_documents,
                                       results |-> results])
            /\ sync' = IF results = "all_failed" THEN [sync EXCEPT !.exit_code = 1] ELSE sync
    /\ pc' = "update"
    /\ UNCHANGED <<fs, _state, current_documents, changes, pending, dl, r2>>

\* Step 7: "if not args.days and not args.dry_run: storage.update_state(...)",
\* and main returns exit_code.
RunUpdate ==
    /\ pc = "update"
    /\ IF sync.args.days = 0 /\ WritesState(sync.args)
       THEN /\ fs' = StateFileAfter(fs, current_documents)
            /\ calls' = Append(calls, Called("update_state", current_documents))
            /\ sync' = [sync EXCEPT !.writes = Append(@, "snapshot")]
       ELSE UNCHANGED <<fs, calls, sync>>
    /\ pc' = "returned"
    /\ UNCHANGED <<_state, current_documents, changes, pending, dl, r2>>

\* A step of the run raises: an exception that no stage catches ends the run
\* with 1 in "except Exception"; Ctrl-C ends it with 130. The exceptions of
\* upload_downloads are caught in step 4.
RunRaises(code) ==
    /\ pc \in {"filter", "download", "mirror", "export", "notify", "update"}
    /\ code = 1 => pc # "mirror"
    /\ Return(code)
    /\ UNCHANGED <<fs, _state, current_documents, changes, pending, calls, dl, r2>>

NextRunStep ==
    \/ RunFetch
    \/ RunFilterByDays
    \/ RunDetect
    \/ RunDownload
    \/ RunMirror
    \/ RunExport
    \/ \E results \in {"skipped", "no_channels", "some_succeeded", "all_failed"} : RunNotify(results)
    \/ RunUpdate
    \/ \E code \in {1, 130} : RunRaises(code)

SpecRun == InitRun /\ [][NextRunStep]_vars

----------------------------------------------------------------------------
(* SpecName: the file name of a document, at its download and at a later sync *)

\* The titles: none, a short one, and the lengths around the 200 characters
\* where generate_filename cuts.
TitleLens == {0, 1} \cup {n \in 1..MaxTitleLen : n >= MaxTitleLen - 16}

\* The documents named: with and without validity prefix and document number.
NamedDocs ==
    {[Document("13", "A", Repeat("a", n), validity) EXCEPT !.doc_number = doc_number] :
        n \in TitleLens, validity \in {"valid", "superseded"}, doc_number \in {"", "N1"}}

\* The extensions generate_filename is called with: none (main, base_name),
\* those of the files download_document_file saves (main, new_filename), and
\* one written without its dot.
NameExtensions == {"", ".pdf", ".doc", ".docx", ".txt", "pdf"}

\* The extensions download_document_file appends to save_base_path.
SavedExtensions == {".pdf", ".doc", ".docx", ".txt"}

InitName ==
    /\ \E d \in NamedDocs :
          dl = [document |-> d, extension |-> "", name |-> "", saved_path |-> "",
                new_path |-> "", renamed |-> FALSE]
    /\ pc = "start"
    /\ fs = [p \in DataPaths |-> NoFile]
    /\ _state = None
    /\ current_documents = <<>>
    /\ changes = NoChanges
    /\ pending = NoPending
    /\ calls = <<>>
    /\ sync = NoSync
    /\ r2 = NoR2

\* generate_filename(document, extension) is called.
GenerateName(extension) ==
    /\ pc = "start"
    /\ dl' = [dl EXCEPT !.extension = extension,
                        !.name = generate_filename(dl.document, extension)]
    /\ pc' = "named"
    /\ UNCHANGED <<fs, _state, current_documents, changes, pending, calls, sync, r2>>

\* The download branch of the loop: download_document_file saves the file at
\* f"{save_base_path}{file_ext}" and main records that path.
SaveDownload(file_ext) ==
    /\ pc = "start"
    /\ dl' = [dl EXCEPT !.extension = file_ext,
                        !.saved_path = SaveBasePath(dl.document) \o file_ext]
    /\ pc' = "saved"
    /\ UNCHANGED <<fs, _state, current_documents, changes, pending, calls, sync, r2>>

\* A later sync of the same document, the file being where it was saved:
\* new_path is computed and the file is moved when it differs from old_path.
LaterSync ==
    /\ pc = "saved"
    /\ dl' = [dl EXCEPT !.new_path = CanonicalPath(dl.document, dl.saved_path),
                        !.renamed = (CanonicalPath(dl.document, dl.saved_path) # dl.saved_path)]
    /\ pc' = "synced"
    /\ UNCHANGED <<fs, _state, current_documents, changes, pending, calls, sync, r2>>

NextName ==
    \/ \E extension \in NameExtensions : GenerateName(extension)
    \/ \E file_ext \in SavedExtensions : SaveDownload(file_ext)
    \/ LaterSync

SpecName == InitName /\ [][NextName]_vars

----------------------------------------------------------------------------
(* SpecHistory: incremental runs one after the other over the state file *)

MaxHistoryRuns == 3
MaxHistoryDocs == 2

\* What the list page of a category can show in a run: the regulations A, A
\* under another title and B; the normative document of the url A.
HistoryDocs(cat_id) ==
    IF cat_id = "13"
    THEN {Document("13", "A", "X", "valid"), Document("13", "A", "Y", "valid"),
          Document("13", "B", "X", "valid")}
    ELSE {Document("14", "A", "X", "valid")}

\* The fetches: a category can be left out (--categories), come back empty,
\* or show some of its documents (--perpage).
HistoryFetches ==
    {m \in DocMaps({"13", "14"}, [c \in {"13", "14"} |-> HistoryDocs(c)], MaxHistoryDocs) :
        TotalDocs(m) >= 1}

\* The category and url of each document of a map.
DocKeys(documents) ==
    UNION {{<<c, documents[c][i].url>> : i \in DOMAIN documents[c]} : c \in DOMAIN documents}

\* download_document_file stamps the documents handed to the download sync,
\* which are objects of all_documents: the first of each record that
\* download_documents holds.
StampSynced(all_documents, download_documents, link) ==
    [c \in DOMAIN all_documents |->
        [i \in DOMAIN all_documents[c] |->
            IF /\ \E j \in DOMAIN Get(download_documents, c, <<>>) :
                      download_documents[c][j] = all_documents[c][i]
               /\ \A k \in 1..(i - 1) : all_documents[c][k] # all_documents[c][i]
            THEN StampPdf(all_documents[c][i], link)
            ELSE all_documents[c][i]]]

InitHistory ==
    /\ fs = [p \in DataPaths |-> NoFile]
    /\ _state = None
    /\ current_documents = <<>>
    /\ changes = NoChanges
    /\ pc = "start"
    /\ sync = [run |-> 1, ever_new |-> {}, known |-> {}]
    /\ pending = NoPending
    /\ calls = <<>>
    /\ dl = NoDl
    /\ r2 = NoR2

\* Step 1 of main in a new process: the fetch, which holds a document.
HistoryFetch(current) ==
    /\ pc = "start"
    /\ current_documents' = current
    /\ _state' = None
    /\ pc' = "fetched"
    /\ UNCHANGED <<fs, changes, pending, calls, sync, dl, r2>>

\* Step 2: storage.detect_changes(all_documents)
HistoryDetect ==
    /\ pc = "fetched"
    /\ LET l == load(_state, fs)
       IN /\ _state' = l.state
          /\ fs' = l.fs
          /\ changes' = detect_changes(l.state.documents, current_documents)
    /\ pc' = "detected"
    /\ UNCHANGED <<current_documents, pending, calls, sync, dl, r2>>

\* Step 3, when there are changes: the documents synced are stamped with the
\* link of their attachment, or with none.
HistorySync(link) ==
    /\ pc = "detected"
    /\ has_changes(changes)
    /\ current_documents' =
          StampSynced(current_documents,
                      _merge_documents(changes.new_documents, changes.updated_documents),
                      link)
    /\ pc' = "synced"
    /\ UNCHANGED <<fs, _state, changes, pending, calls, sync, dl, r2>>

\* storage.update_state(all_documents): of the run without changes, or step 7.
HistoryUpdate ==
    /\ \/ pc = "detected" /\ ~has_changes(changes)
       \/ pc = "synced"
    /\ fs' = [fs EXCEPT ![DATA_PATH] = JsonObject(SaveData(UpdatedState(current_documents)))]
    /\ _state' = UpdatedState(current_documents)
    /\ sync' = [sync EXCEPT !.ever_new = @ \cup DocKeys(changes.new_documents),
                            !.known = DocKeys(current_documents)]
    /\ pc' = "committed"
    /\ UNCHANGED <<current_documents, changes, pending, calls, dl, r2>>

\* detect_changes on the documents just committed.
HistoryDetectAgain ==
    /\ pc = "committed"
    /\ changes' = detect_changes(load(_state, fs).state.documents, current_documents)
    /\ pc' = "redetected"
    /\ UNCHANGED <<fs, _state, current_documents, pending, calls, sync, dl, r2>>

\* The next run of the program.
HistoryNextRun ==
    /\ pc \in {"committed", "redetected"}
    /\ sync.run < MaxHistoryRuns
    /\ sync' = [sync EXCEPT !.run = @ + 1]
    /\ changes' = NoChanges
    /\ pc' = "start"
    /\ UNCHANGED <<fs, _state, current_documents, pending, calls, dl, r2>>

NextHistory ==
    \/ \E current \in HistoryFetches : HistoryFetch(current)
    \/ HistoryDetect
    \/ \E link \in {"", "P"} : HistorySync(link)
    \/ HistoryUpdate
    \/ HistoryDetectAgain
    \/ HistoryNextRun

SpecHistory == InitHistory /\ [][NextHistory]_vars

----------------------------------------------------------------------------
(* SpecRecover: syncs one after the other, a run may end inside its loop *)

MaxRecoverRuns == 3

\* docs_to_sync of the runs: a run over the window (--days) is handed the same
\* documents again, one per url.
RecoverDocs ==
    {Document("13", "A", "X", "valid"), Document("13", "B", "Z", "valid"), LongNameDoc}

\* What earlier runs left: nothing, or the pdf of document A under one of its
\* two titles, in the index or not.
RecoverStarts ==
    {[disk |-> <<>>, index_file |-> NoFile]}
    \cup UNION {{[disk |-> (f.path :> f.file), index_file |-> NoFile],
                 [disk |-> (f.path :> f.file),
                  index_file |-> JsonObject(IndexPayload((f.file.url :>
                        [relative_path |-> f.path, updated_at |-> "t0"])))]} :
            f \in {g \in EarlierFiles : g.file.url = "A" /\ splitext(g.path) = ".pdf"}}

RecoverLists ==
    {l \in UNION {[1..k -> RecoverDocs] : k \in 1..MaxSyncDocs} :
        \A i, j \in DOMAIN l : i # j => l[i].url # l[j].url}

\* What is kept of the runs: the documents, the index file as the run found
\* it, and how the run before ended with what it had handled.
RunNotes(run, docs_to_sync, index_file, ended, earlier) ==
    [run |-> run, docs_to_sync |-> docs_to_sync, index_file |-> index_file,
     ended |-> ended, earlier |-> earlier]

InitRecover ==
    /\ \E start \in RecoverStarts, docs_to_sync \in RecoverLists :
            /\ fs = [p \in DataPaths |->
                        IF p = DOWNLOAD_INDEX_PATH THEN start.index_file ELSE NoFile]
            /\ sync = RunNotes(1, docs_to_sync, start.index_file, "none", <<>>)
            /\ dl = [download_index |-> <<>>, disk |-> start.disk, todo |-> docs_to_sync,
                     synced_count |-> 0, renamed_count |-> 0, failed_count |-> 0,
                     ops |-> <<>>, handled |-> <<>>]
    /\ pc = "start"
    /\ _state = None
    /\ current_documents = <<>>
    /\ changes = NoChanges
    /\ pending = NoPending
    /\ calls = <<>>
    /\ r2 = NoR2

\* KeyboardInterrupt inside the loop, between two file operations: main leaves
\* by its handler, save_download_index is not reached.
Interrupted ==
    /\ pc = "sync"
    /\ pc' = "exited"
    /\ UNCHANGED <<fs, _state, current_documents, changes, pending, calls, sync, dl, r2>>

\* KeyboardInterrupt while _download_binary_file writes the chunks: the file
\* open for writing at save_path stays as far as it was written (except
\* Exception does not catch it).
InterruptedInDownload ==
    \E doc \in SyncedDocs :
      /\ AtDoc(doc)
      /\ Branch(dl.download_index, dl.disk, doc) = "download"
      /\ LET save_path == SaveBasePath(doc) \o ".pdf"
         IN dl' = [dl EXCEPT
              !.disk = (save_path :> FileOf(doc.url, "partly")) @@ @,
              !.ops = Append(@, [op |-> "download", path |-> doc.url, to |-> ""]),
              !.handled = Append(@, [doc |-> doc, branch |-> "download_interrupted",
                                     path |-> save_path])]
      /\ pc' = "exited"
      /\ UNCHANGED <<fs, _state, current_documents, changes, pending, calls, sync, r2>>

\* The next run of main: the files of download_dir and the index file are as
\* the run before left them, the loop starts over.
NextSync ==
    /\ pc \in {"exited", "saved"}
    /\ sync.run < MaxRecoverRuns
    /\ sync' = RunNotes(sync.run + 1, sync.docs_to_sync, fs[DOWNLOAD_INDEX_PATH],
                        pc, dl.handled)
    /\ dl' = [download_index |-> <<>>, disk |-> dl.disk, todo |-> sync.docs_to_sync,
              synced_count |-> 0, renamed_count |-> 0, failed_count |-> 0,
              ops |-> <<>>, handled |-> <<>>]
    /\ pc' = "start"
    /\ UNCHANGED <<fs, _state, current_documents, changes, pending, calls, r2>>

NextRecover ==
    \/ BeginSync
    \/ SyncLocal
    \/ FileOpFails
    \/ \E saved_ext \in {".pdf", ""} : SyncDownload(saved_ext)
    \/ SaveIndex
    \/ SaveIndexFails
    \/ Interrupted
    \/ InterruptedInDownload
    \/ NextSync

SpecRecover == InitRecover /\ [][NextRecover]_vars

----------------------------------------------------------------------------
(* Properties of the stores (SpecStore) *)

\* C5: two detect_changes calls in a row with the same current documents return
\* equal ChangeResults and see the same known snapshot.
C5_DetectTwiceSame ==
    Len(calls) = 2 =>
        /\ calls[1].result = calls[2].result
        /\ calls[1].known = calls[2].known

C5_Witness ==
    /\ Len(calls) = 2
    /\ DOMAIN calls[2].result.new_documents # {}
    /\ DOMAIN calls[2].result.updated_documents # {}

\* The content of a store file is a whole JSON text or the file is not there.
WholeOrAbsent(content) == content.kind \in {"absent", "json", "garbage"}

\* The one step that may change store file p: the rename of a temporary file of
\* the same directory that holds the whole flushed and synced text.
RenameOfSyncedTemp(p) ==
    /\ pending.step = "synced"
    /\ pending.path = p
    /\ pending.temp # p
    /\ dirname(pending.temp) = dirname(p)
    /\ fs[pending.temp] = JsonObject(pending.data)
    /\ fs'[p] = JsonObject(pending.data)

\* C7: the state snapshot, the download index and the upload cache change only
\* by the rename of a flushed and synced temporary file of their directory, so
\* every step before it (a crash or an exception included) leaves them as they
\* were, and none of them is ever a half-written text.
C7_AtomicStoreWrites ==
    /\ [][\A p \in StorePaths : fs'[p] # fs[p] => RenameOfSyncedTemp(p)]_vars
    /\ [](\A p \in StorePaths : WholeOrAbsent(fs[p]))

\* A process killed in the middle of the dump of a new snapshot: the temporary
\* file is cut short, the state file still holds the older snapshot.
C7_Witness ==
    /\ pc = "dead"
    /\ pending.path = DATA_PATH
    /\ fs[pending.temp].kind = "truncated"
    /\ fs[DATA_PATH].kind = "json"
    /\ fs[DATA_PATH].value # pending.data

RowUrls(rows) == {Get(rows[i], "url", "") : i \in DOMAIN rows}

\* C8: after a process interruption every export file holds its last committed
\* content or the complete new content of the write that was under way, and a
\* read of it returns a row for every url of the last committed content.
C8_NoTornExport ==
    pc = "dead" =>
        \A p \in JsPaths :
            /\ \/ fs[p] = sync.committed[p]
               \/ pending.path = p /\ fs[p] = Text(pending.data)
            /\ RowUrls(_read_js_data(sync.committed, p)) \subseteq RowUrls(_read_js_data(fs, p))

\* The state file is there and is not valid structured data.
NotValidStructured(content) ==
    \/ content.kind \in {"garbage", "truncated", "empty"}
    \/ content.kind = "json" /\ content.top # "object"

\* C9: a load that reads the file returns an empty snapshot when the file is
\* missing, and copies the file aside and returns an empty snapshot when the
\* file is unparseable or its top level is not an object.
C9_LoadQuarantinesInvalid ==
    [][(pc = "start" /\ _state = None /\ _state' # None) =>
            /\ ~exists(fs, DATA_PATH) => (_state' = EmptyState /\ fs' = fs)
            /\ NotValidStructured(fs[DATA_PATH]) =>
                    (_state' = EmptyState /\ fs'[BackupPath] = fs[DATA_PATH])]_vars

\* C10: after update_state(current) the documents map of the state file has
\* exactly the category keys of current and, per category, the records of the
\* current documents in their order; the legacy lists hold records of current
\* documents only.
C10_SnapshotReplaced ==
    pc = "done" =>
        /\ fs[DATA_PATH].kind = "json"
        /\ fs[DATA_PATH].top = "object"
        /\ LET data == fs[DATA_PATH].value
           IN /\ DOMAIN data.documents = DOMAIN current_documents
              /\ \A c \in DOMAIN current_documents :
                    /\ Len(data.documents[c]) = Len(current_documents[c])
                    /\ \A i \in DOMAIN current_documents[c] :
                          data.documents[c][i] = current_documents[c][i]
              /\ \A c \in DOMAIN LEGACY_STATE_KEYS :
                    \A j \in DOMAIN data[LEGACY_STATE_KEYS[c]] :
                        /\ c \in DOMAIN current_documents
                        /\ j \in DOMAIN current_documents[c]
                        /\ data[LEGACY_STATE_KEYS[c]][j].url = current_documents[c][j].url
                        /\ data[LEGACY_STATE_KEYS[c]][j].title = current_documents[c][j].title
              /\ _state.documents = data.documents

\* update_state done where the snapshot before it held a category and a record
\* that the current fetch does not hold.
C10_Witness ==
    /\ pc = "done"
    /\ Len(calls) = 1
    /\ \E c \in DOMAIN calls[1].known :
          /\ c \notin DOMAIN current_documents
          /\ calls[1].known[c] # <<>>
          /\ c \notin DOMAIN fs[DATA_PATH].value.documents

\* C11: a state file with flat keys only loads into a documents map keyed by
\* category id with the same lists; update_state writes the nested documents
\* map; a fresh Storage that loads the written file gets the documents of the
\* state that was saved.
C11_LegacyReadNestedWrite ==
    /\ (pc \in {"start", "detected", "detected_twice"} /\ _state # None
            /\ fs[DATA_PATH].kind = "json" /\ fs[DATA_PATH].top = "object"
            /\ "documents" \notin DOMAIN fs[DATA_PATH].value) =>
          LET data == fs[DATA_PATH].value
              ids == {c \in {"9", "13", "14", "15"} : c \in DOMAIN data}
              flat == {c \in {"13", "14", "15"} \ ids :
                          (CASE c = "13" -> "regulations" [] c = "14" -> "normatives"
                             [] OTHER -> "standards") \in DOMAIN data}
          IN /\ DOMAIN _state.documents = ids \cup flat
             /\ \A c \in ids : _state.documents[c] = data[c]
             /\ "13" \in flat => _state.documents["13"] = data.regulations
             /\ "14" \in flat => _state.documents["14"] = data.normatives
             /\ "15" \in flat => _state.documents["15"] = data.standards
    /\ pc \in {"done", "reloaded"} =>
          /\ fs[DATA_PATH].kind = "json" /\ fs[DATA_PATH].top = "object"
          /\ "documents" \in DOMAIN fs[DATA_PATH].value
          /\ DOMAIN _state.documents = DOMAIN current_documents
          /\ \A c \in DOMAIN current_documents :
                /\ Len(_state.documents[c]) = Len(current_documents[c])
                /\ \A i \in DOMAIN current_documents[c] :
                      _state.documents[c][i] = current_documents[c][i]

\* A run that started from a legacy file, saved its fetch, and a fresh Storage
\* that loaded the saved file.
C11_Witness ==
    /\ pc = "reloaded"
    /\ Len(calls) = 1
    /\ DOMAIN calls[1].known = {"13", "14", "15"}
    /\ calls[1].known["13"] = LegacyData.regulations
    /\ \E c \in DOMAIN _state.documents : _state.documents[c] # <<>>

\* The index records of a file, told from the file alone: the object under
\* "records" (or the top level object when there is no such key), the entries
\* that are objects with a relative_path that is not blank.
GoodIndexEntries(content) ==
    IF content.kind # "json" \/ content.top # "object" THEN {}
    ELSE LET raw == IF "records" \in DOMAIN content.value
                    THEN content.value.records ELSE content.value
         IN IF "json_list" \in DOMAIN raw \/ "json_string" \in DOMAIN raw THEN {}
            ELSE {u \in DOMAIN raw : /\ "relative_path" \in DOMAIN raw[u]
                                     /\ raw[u].relative_path \notin {"", " "}}

\* The snapshot a state file loads into, told from the state file alone.
LoadsEmpty(content) ==
    content.kind # "json" \/ content.top # "object"

\* C12: load_download_index returns the empty map for a missing, unparseable or
\* wrongly shaped index file and keeps exactly the records that have a
\* relative_path, whatever the state file is and whether or not it was loaded;
\* Storage.load gives the snapshot of the state file, whatever the index file
\* is and whether or not it was loaded.
C12_IndexAvailability ==
    /\ dl # NoDl =>
          /\ DOMAIN dl.download_index = GoodIndexEntries(fs[DOWNLOAD_INDEX_PATH])
          /\ \A u \in DOMAIN dl.download_index :
                dl.download_index[u].relative_path # ""
    /\ _state # None =>
          /\ LoadsEmpty(fs[DATA_PATH]) => _state = EmptyState
          /\ fs[DATA_PATH] = JsonObject(LegacyData) =>
                _state.documents["13"] = LegacyData.regulations
          /\ (~LoadsEmpty(fs[DATA_PATH]) /\ "documents" \in DOMAIN fs[DATA_PATH].value) =>
                _state.documents = fs[DATA_PATH].value.documents

\* Both loads done: the index file holds a record with and a record without a
\* relative_path, and the state file is unparseable.
C12_Witness ==
    /\ dl # NoDl
    /\ _state # None
    /\ fs[DATA_PATH] = Garbage
    /\ fs[DOWNLOAD_INDEX_PATH].kind = "json"
    /\ DOMAIN dl.download_index = {"A"}
    /\ "records" \in DOMAIN fs[DOWNLOAD_INDEX_PATH].value
    /\ "B" \in DOMAIN fs[DOWNLOAD_INDEX_PATH].value.records

----------------------------------------------------------------------------
(* Properties of the download sync (SpecDownload) *)

\* The document the loop body is at, when the step in hand is its loop body.
StepsOver(doc) ==
    /\ pc = "sync"
    /\ dl.todo # <<>>
    /\ doc = Head(dl.todo)
    /\ dl'.todo = Tail(dl.todo)

\* The path the index holds for the url of doc, when that file is on disk.
IndexedOnDisk(doc, path) ==
    /\ doc.url \in DOMAIN dl.download_index
    /\ path = dl.download_index[doc.url].relative_path
    /\ path \in DOMAIN dl.disk

\* The current name of doc with the extension of the file at path.
NameNow(doc, path) ==
    get_download_subdir(doc.category_id) \o "/" \o generate_filename(doc, splitext(path))

\* The file operations the step in hand has made.
NewOps == SubSeq(dl'.ops, Len(dl.ops) + 1, Len(dl'.ops))

NoDownloadCall == \A i \in DOMAIN NewOps : NewOps[i].op # "download"

\* The file at old is at new after the step, by os.replace.
MovedTo(old, new) ==
    /\ NewOps = <<[op |-> "replace", path |-> old, to |-> new]>>
    /\ dl'.disk = (new :> dl.disk[old]) @@ [p \in DOMAIN dl.disk \ {old} |-> dl.disk[p]]

\* The file at old is deleted and the file at new stays as it was.
OldRemovedFor(old, new) ==
    /\ NewOps = <<[op |-> "remove", path |-> old, to |-> ""]>>
    /\ dl'.disk = [p \in DOMAIN dl.disk \ {old} |-> dl.disk[p]]

\* C13 as stated: for a document whose indexed file is on disk the download is
\* never called; with the name unchanged no file is moved, deleted or written;
\* with the name changed the file is moved to the canonical path and the index
\* records that path.
C13_RenameAlwaysMoves ==
    [][\A doc \in SyncDocs, old \in DOMAIN dl.disk :
          (StepsOver(doc) /\ IndexedOnDisk(doc, old)) =>
              /\ NoDownloadCall
              /\ old = NameNow(doc, old) => (dl'.disk = dl.disk /\ NewOps = <<>>)
              /\ old # NameNow(doc, old) =>
                    /\ MovedTo(old, NameNow(doc, old))
                    /\ dl'.download_index[doc.url].relative_path = NameNow(doc, old)]_vars

\* C13, amended: as above, but with the name changed the file is moved to the
\* canonical path only when no file is there; when a file is already at the
\* canonical path the old file is deleted and that file is kept. In both cases
\* the index records the canonical path.
C13_RenameNotRedownload ==
    [][\A doc \in SyncDocs, old \in DOMAIN dl.disk :
          (StepsOver(doc) /\ IndexedOnDisk(doc, old)) =>
              /\ NoDownloadCall
              /\ old = NameNow(doc, old) => (dl'.disk = dl.disk /\ NewOps = <<>>)
              /\ old # NameNow(doc, old) =>
                    /\ IF NameNow(doc, old) \in DOMAIN dl.disk
                       THEN OldRemovedFor(old, NameNow(doc, old))
                       ELSE MovedTo(old, NameNow(doc, old))
                    /\ old \notin DOMAIN dl'.disk
                    /\ NameNow(doc, old) \in DOMAIN dl'.disk
                    /\ dl'.download_index[doc.url].relative_path = NameNow(doc, old)]_vars

\* A sync that renamed the indexed file of a document to its current name and
\* called no download.
C13_Witness ==
    /\ pc = "saved"
    /\ Len(dl.handled) = 1
    /\ dl.handled[1].branch = "rename"
    /\ dl.ops = <<[op |-> "replace", path |-> "regulation/N1X.txt", to |-> "regulation/N1Y.txt"]>>
    /\ DOMAIN dl.disk = {"regulation/N1Y.txt"}
    /\ dl.renamed_count = 1

\* The documents the sync has processed with success, and the path it recorded.
Processed ==
    {dl.handled[i] : i \in {j \in DOMAIN dl.handled :
        dl.handled[j].branch \in {"keep", "rename", "remove_old", "adopt", "download"}}}

\* The files on disk that hold the document of url.
FilesOf(url) == {p \in DOMAIN dl.disk : dl.disk[p].url = url}

\* C14: after the sync every successfully processed document has exactly one
\* file on disk, under its current name, and no file that held it under an
\* earlier name is left, with or without an index entry for its url.
C14_OneFilePerDocument ==
    pc = "saved" =>
        \A h \in Processed :
            /\ FilesOf(h.doc.url) = {h.path}
            /\ \E e \in {".pdf", ".doc", ".docx", ".txt"} :
                  h.path = get_download_subdir(h.doc.category_id) \o "/"
                              \o generate_filename(h.doc, e)

\* The step in hand called the download for doc and got no saved path.
DownloadFailedFor(doc) ==
    /\ StepsOver(doc)
    /\ NewOps = <<[op |-> "download", path |-> doc.url, to |-> ""]>>

\* C15: a download that returns no saved path adds one to the failures and
\* nothing to the index, the loop goes on with the next document, and the index
\* saved after the loop has no entry for that url but one it already had.
C15_DownloadFailureIsolated ==
    /\ [][\A doc \in SyncDocs : DownloadFailedFor(doc) =>
              /\ dl'.failed_count = dl.failed_count + 1
              /\ dl'.synced_count = dl.synced_count
              /\ dl'.download_index = dl.download_index
              /\ dl'.disk = dl.disk
              /\ pc' = "sync"]_vars
    /\ [](pc = "saved" =>
              /\ dl.todo = <<>>
              /\ fs[DOWNLOAD_INDEX_PATH] =
                    [kind |-> "json", top |-> "object",
                     value |-> [last_update |-> "t1", records |-> dl.download_index]]
              /\ dl.failed_count + dl.synced_count = Len(dl.handled)
              /\ \A i \in DOMAIN dl.handled :
                    (dl.handled[i].path = "" /\ dl.handled[i].doc.url \in DOMAIN dl.download_index)
                        => dl.download_index[dl.handled[i].doc.url].updated_at = "t0")

\* The download of the first document failed, the second document was
\* downloaded, and the index was saved with the second only.
C15_Witness ==
    /\ pc = "saved"
    /\ Len(dl.handled) = 2
    /\ dl.handled[1].branch = "download_failed"
    /\ dl.handled[2].branch = "download"
    /\ dl.failed_count = 1
    /\ dl.synced_count = 1
    /\ DOMAIN fs[DOWNLOAD_INDEX_PATH].value.records = {dl.handled[2].doc.url}

\* C16: a file move or a stale-file delete that fails for one document is
\* counted, the loop goes on with the documents left and the index is saved;
\* the run ends early only when a store cannot be written, after the loop.
C16_ItemFailuresContained ==
    /\ pc = "exited" => dl.todo = <<>>
    /\ \A i \in DOMAIN dl.handled :
          dl.handled[i].branch = "file_op_failed" =>
              /\ pc \in {"sync", "saved"}
              /\ dl.failed_count >= 1

----------------------------------------------------------------------------
(* Properties of the remote mirror (SpecUpload) *)

\* The pdf files on disk that the download index names, with their urls.
Mirrored ==
    {[url |-> u, path |-> dl.download_index[u].relative_path] :
        u \in {v \in DOMAIN dl.download_index :
                  LET p == dl.download_index[v].relative_path
                  IN IsPdf(p) /\ p \in DOMAIN dl.disk}}

\* How often upload_file was called for path in this run.
PutCount(path) == Cardinality({i \in DOMAIN r2.puts : r2.puts[i].path = path})

\* The first run uploaded path with success.
UploadedInFirst(path) ==
    \E i \in DOMAIN r2.first.puts : r2.first.puts[i] = [path |-> path, ok |-> TRUE]

\* The last successful upload of path before the second run: the one of the
\* first run, else the one the cache held before the first run, else None.
LastUpload(path) ==
    IF UploadedInFirst(path)
    THEN [r2_url |-> _build_public_url(path), file_size |-> r2.first.disk[path]]
    ELSE IF path \in DOMAIN r2.first.cache0 THEN r2.first.cache0[path]
    ELSE None

\* C17: in a second run after a first run that returned, a file whose size is
\* the size of its last successful upload is not uploaded and gets the url of
\* that upload; a file whose size differs, or that was never uploaded, is
\* uploaded exactly once; no other file is uploaded.
C17_UploadCache ==
    (pc = "mirrored" /\ r2.run = 2 /\ r2.first.persisted /\ r2.returned) =>
        /\ \A m \in Mirrored :
              IF LastUpload(m.path) # None
                   /\ LastUpload(m.path).file_size = dl.disk[m.path]
              THEN /\ PutCount(m.path) = 0
                   /\ m.url \in DOMAIN r2.r2_url_map
                   /\ r2.r2_url_map[m.url] = LastUpload(m.path).r2_url
              ELSE PutCount(m.path) = 1
        /\ \A i \in DOMAIN r2.puts : \E m \in Mirrored : m.path = r2.puts[i].path

\* The first run uploaded both pdf files; for the second the size of one of
\* them changed: that file is uploaded again, the other comes from the cache.
C17_Witness ==
    /\ pc = "mirrored"
    /\ r2.run = 2
    /\ r2.first.persisted
    /\ r2.returned
    /\ UploadedInFirst("regulation/N1X.pdf")
    /\ UploadedInFirst("regulation/N1Z.pdf")
    /\ r2.first.disk["regulation/N1X.pdf"] = dl.disk["regulation/N1X.pdf"]
    /\ r2.first.disk["regulation/N1Z.pdf"] # dl.disk["regulation/N1Z.pdf"]
    /\ r2.puts = <<[path |-> "regulation/N1Z.pdf", ok |-> TRUE]>>
    /\ r2.cached = 1

\* The step in hand called upload_file for path and got no url.
UploadFailedFor(url, path) ==
    /\ pc = "mirror"
    /\ r2.todo # <<>>
    /\ url = Head(r2.todo)
    /\ path = dl.download_index[url].relative_path
    /\ r2'.puts = Append(r2.puts, [path |-> path, ok |-> FALSE])

\* C18: after a failed upload the url map holds the cached url of the document
\* when the cache has a record for the path, and no entry otherwise; the cache
\* record stays as it was, in memory and in the cache file the run leaves.
C18_UploadFailureFallback ==
    /\ [][\A url \in DOMAIN UploadIndex, path \in UploadPaths :
              UploadFailedFor(url, path) =>
                  /\ IF path \in DOMAIN r2.r2_index
                     THEN /\ url \in DOMAIN r2'.r2_url_map
                          /\ r2'.r2_url_map[url] = r2.r2_index[path].r2_url
                     ELSE url \notin DOMAIN r2'.r2_url_map
                  /\ r2'.r2_index = r2.r2_index]_vars
    /\ [](pc = "mirrored" =>
              \A i \in DOMAIN r2.puts :
                  (~r2.puts[i].ok /\ fs[R2_INDEX_PATH].kind = "json") =>
                      LET records == fs[R2_INDEX_PATH].value.records
                          path == r2.puts[i].path
                      IN IF path \in DOMAIN r2.cache0
                         THEN path \in DOMAIN records /\ records[path] = r2.cache0[path]
                         ELSE path \notin DOMAIN records)

\* A run in which the upload of a file with a stale cache record failed and the
\* upload of a file without a record failed: the map holds the stale url of
\* the first and nothing for the second.
C18_Witness ==
    /\ pc = "mirrored"
    /\ r2.run = 1
    /\ r2.puts = <<[path |-> "regulation/N1X.pdf", ok |-> FALSE],
                   [path |-> "regulation/N1Z.pdf", ok |-> FALSE]>>
    /\ DOMAIN r2.cache0 = {"regulation/N1X.pdf"}
    /\ DOMAIN r2.r2_url_map = {"A"}
    /\ r2.r2_url_map["A"] = "https://r2/old/regulation/N1X.pdf"

\* A call of upload_file in the call of upload_downloads returned a url.
SomeUploadSucceeded(r) == \E i \in DOMAIN r.puts : r.puts[i].ok

\* C32: the cache file changes only in the step that ends a call in which an
\* upload succeeded; a call that returns after a successful upload has written
\* the cache with the records of its uploads, and a call without one returns
\* with the cache file as it found it.
C32_CacheSavedIffUploaded ==
    /\ [][fs'[R2_INDEX_PATH] # fs[R2_INDEX_PATH] =>
              (pc = "mirror" /\ r2.todo = <<>> /\ SomeUploadSucceeded(r2))]_vars
    /\ [][(r2'.returned /\ ~r2.returned) =>
              IF SomeUploadSucceeded(r2)
              THEN /\ fs'[R2_INDEX_PATH] # fs[R2_INDEX_PATH]
                   /\ _load_r2_index(fs') = r2.r2_index
                   /\ \A i \in DOMAIN r2.puts :
                         r2.puts[i].ok => r2.puts[i].path \in DOMAIN _load_r2_index(fs')
              ELSE fs' = fs]_vars

\* A call in which one upload succeeded and one failed has returned, and the
\* cache file holds the record of the upload that succeeded only.
C32_Witness ==
    /\ pc = "mirrored"
    /\ r2.returned
    /\ r2.cache0 = <<>>
    /\ \E i, j \in DOMAIN r2.puts : r2.puts[i].ok /\ ~r2.puts[j].ok
    /\ Cardinality(DOMAIN _load_r2_index(fs)) = 1

\* A call with a cache hit and a failed upload has returned and no cache file
\* was created over the unreadable one.
C32_WitnessNoUpload ==
    /\ pc = "mirrored"
    /\ r2.returned
    /\ r2.run = 2
    /\ r2.cached > 0
    /\ r2.puts # <<>>
    /\ ~SomeUploadSucceeded(r2)
    /\ _load_r2_index(fs) = r2.cache0

----------------------------------------------------------------------------
(* Properties of the export merge (SpecExport) *)

\* The step in hand is the merge of the category: its fetch is not empty and
\* the write of its export file begins.
MergesCategory(cat_id) ==
    /\ AtCategory(cat_id)
    /\ Get(current_documents, cat_id, <<>>) # <<>>
    /\ pending'.step = "write"
    /\ pending'.path = JsPath(cat_id)

\* The rows of the text being written.
RowsOf(tokens) == _read_js_data([p \in JsPaths |-> Text(tokens)], JsPath("13"))

\* C19: the rows written for a category with a non-empty fetch are one row per
\* current document, in fetch order, each carrying the url, title and validity
\* of its document, followed by the prior rows whose url is the url of no
\* current document, in their prior order.
C19_MergeOrder ==
    [][\A cat_id \in DOMAIN JS_EXPORT_CONFIG :
          MergesCategory(cat_id) =>
              LET docs == current_documents[cat_id]
                  prior == _read_js_data(fs, JsPath(cat_id))
                  merged == RowsOf(pending'.data)
                  current_urls == {docs[i].url : i \in DOMAIN docs}
                  Retained(row) == row.url \notin current_urls
              IN /\ Len(merged) >= Len(docs)
                 /\ \A i \in DOMAIN docs :
                       /\ merged[i].url = docs[i].url
                       /\ merged[i].title = docs[i].title
                       /\ merged[i].validity = docs[i].validity
                 /\ SubSeq(merged, Len(docs) + 1, Len(merged)) = SelectSeq(prior, Retained)]_vars

\* The regulations export held the rows of C and A; the fetch has A with a new
\* title, and B: the export written holds A, B and then C, the row of A being
\* the new one.
C19_Witness ==
    /\ pc = "sync"
    /\ pending.step = "written"
    /\ pending.path = JsPath("13")
    /\ LET prior == _read_js_data(sync.committed, JsPath("13"))
           merged == _read_js_data(fs, JsPath("13"))
       IN /\ Len(prior) = 2
          /\ prior[1].url = "C"
          /\ prior[2].url = "A"
          /\ prior[2].title = "Y"
          /\ Len(merged) = 3
          /\ merged[1].url = "A"
          /\ merged[1].title = "X"
          /\ merged[2].url = "B"
          /\ merged[3] = prior[1]

\* Two prior rows are retained behind the current one, in their prior order.
C19_WitnessOrder ==
    /\ pc = "sync"
    /\ pending.step = "written"
    /\ pending.path = JsPath("13")
    /\ LET prior == _read_js_data(sync.committed, JsPath("13"))
           merged == _read_js_data(fs, JsPath("13"))
       IN /\ Len(prior) = 2
          /\ Len(merged) = 3
          /\ merged[1].url = "B"
          /\ merged[2] = prior[1]
          /\ merged[3] = prior[2]

\* The loop body handles the category, whose fetch is empty or missing.
EmptyFetchStep(cat_id) ==
    /\ AtCategory(cat_id)
    /\ Get(current_documents, cat_id, <<>>) = <<>>
    /\ sync'.todo # sync.todo \/ pending' # pending

\* C20: when the fetch of a category is empty or missing and an export file of
\* the category exists, the step of sync_js_files for that category leaves the
\* file as it is.
C20_EmptyFetchKeepsExport ==
    [][\A cat_id \in DOMAIN JS_EXPORT_CONFIG :
          (EmptyFetchStep(cat_id) /\ exists(fs, JsPath(cat_id))) =>
              fs'[JsPath(cat_id)] = fs[JsPath(cat_id)]]_vars

\* What the code keeps: an export file from which _read_js_data reads a row.
ReadableExportKept ==
    [][\A cat_id \in DOMAIN JS_EXPORT_CONFIG :
          (EmptyFetchStep(cat_id) /\ _read_js_data(fs, JsPath(cat_id)) # <<>>) =>
              fs'[JsPath(cat_id)] = fs[JsPath(cat_id)]]_vars

\* The empty export is being written over an export file whose last complete
\* content held rows.
C20_RowsReplacedByEmpty ==
    \E cat_id \in DOMAIN JS_EXPORT_CONFIG :
        /\ pending.step = "write"
        /\ pending.path = JsPath(cat_id)
        /\ pending.data = JsContent(<<>>, JS_EXPORT_CONFIG[cat_id].export_name)
        /\ exists(sync.committed, JsPath(cat_id))
        /\ \E i \in DOMAIN sync.committed[JsPath(cat_id)].tokens :
               sync.committed[JsPath(cat_id)].tokens[i].t = "row"

\* C21: a url that has a row in the last complete export of a category has a
\* row in every later complete export of the category.
C21_ExportAppendOnly ==
    [][\A p \in JsPaths :
          RowUrls(_read_js_data(sync.committed, p))
              \subseteq RowUrls(_read_js_data(sync'.committed, p))]_vars

\* An export has been completed that lacks a url of the export before it.
C21_HistoryLost ==
    /\ pc = "done"
    /\ sync.run = 2
    /\ "A" \notin RowUrls(_read_js_data(fs, JsPath("13")))
    /\ "B" \in RowUrls(_read_js_data(fs, JsPath("13")))
    /\ fs = sync.committed

\* The file numbers of the rows of a url, the empty one left out.
FileNumbersOf(rows, url) ==
    {rows[i].file_number :
        i \in {j \in DOMAIN rows : /\ Get(rows[j], "url", "") = url
                                   /\ Get(rows[j], "file_number", "") # ""}}

\* C31: in the merge of the normative export, the row of a current document
\* whose url has a prior row with a file number carries that file number;
\* without one it carries "FN:" followed by the document number, or the empty
\* string when the document has no number.
C31_StickyFileNumber ==
    [][MergesCategory("14") =>
          LET docs == current_documents["14"]
              prior == _read_js_data(fs, JsPath("14"))
              merged == RowsOf(pending'.data)
          IN \A i \in DOMAIN docs :
                IF FileNumbersOf(prior, docs[i].url) # {}
                THEN merged[i].file_number \in FileNumbersOf(prior, docs[i].url)
                ELSE merged[i].file_number =
                        (IF docs[i].doc_number # "" THEN "FN:" \o docs[i].doc_number
                         ELSE "")]_vars

\* The normative export held the row of A with the file number of document
\* number N0; A is fetched with document number N1 and B without a number:
\* the export written gives A the document number N1 under the file number of
\* N0, and B an empty file number.
C31_Witness ==
    /\ pc = "sync"
    /\ pending.step = "written"
    /\ pending.path = JsPath("14")
    /\ FileNumbersOf(_read_js_data(sync.committed, JsPath("14")), "A") = {"FN:N0"}
    /\ LET merged == _read_js_data(fs, JsPath("14"))
       IN /\ Len(merged) = 2
          /\ merged[1].url = "A"
          /\ merged[1].doc_number = "N1"
          /\ merged[1].file_number = "FN:N0"
          /\ merged[2].url = "B"
          /\ merged[2].file_number = ""

\* Without a prior export the file number of A is derived from its number.
C31_WitnessDerived ==
    /\ pc = "sync"
    /\ pending.step = "written"
    /\ pending.path = JsPath("14")
    /\ ~exists(sync.committed, JsPath("14"))
    /\ LET merged == _read_js_data(fs, JsPath("14"))
       IN /\ Len(merged) >= 1
          /\ merged[1].url = "A"
          /\ merged[1].file_number = "FN:N1"

\* The urls whose row carries a link to an attachment.
LinkedUrls(rows) ==
    {rows[i].url : i \in {j \in DOMAIN rows : Get(rows[j], "pdf_url", "") # ""}}

\* The links the rows of a url carry.
LinksOf(rows, url) ==
    {rows[i].pdf_url :
        i \in {j \in DOMAIN rows : /\ Get(rows[j], "url", "") = url
                                   /\ Get(rows[j], "pdf_url", "") # ""}}

\* The row of a current document carries the link of the mirror map when the
\* map has its url, else the link of a prior row of its url, else none.
MergedLinkChosen ==
    [][\A cat_id \in DOMAIN JS_EXPORT_CONFIG :
          MergesCategory(cat_id) =>
              LET docs == current_documents[cat_id]
                  prior == _read_js_data(fs, JsPath(cat_id))
                  merged == RowsOf(pending'.data)
              IN \A i \in DOMAIN docs :
                    IF docs[i].url \in DOMAIN sync.url_map
                    THEN Get(merged[i], "pdf_url", "") = sync.url_map[docs[i].url]
                    ELSE IF LinksOf(prior, docs[i].url) # {}
                    THEN Get(merged[i], "pdf_url", "") \in LinksOf(prior, docs[i].url)
                    ELSE "pdf_url" \notin DOMAIN merged[i]]_vars

\* A url whose row carries a link in the last complete export of a category
\* has a row with a link in every later complete export of the category.
LinkNeverLost ==
    [][\A p \in JsPaths :
          LinkedUrls(_read_js_data(sync.committed, p))
              \subseteq LinkedUrls(_read_js_data(sync'.committed, p))]_vars

\* C39: the link of a merged row is chosen from the mirror map, then from the
\* prior row, and a url that once has a link in the export of its category
\* has one in every later export of the category.
C39_LinkNeverRegresses ==
    MergedLinkChosen /\ LinkNeverLost

----------------------------------------------------------------------------
(* Properties of the branches of the download sync (SpecDownload) *)

\* The files other than path are after the step what they were before it.
OthersKept(path) ==
    /\ DOMAIN dl'.disk \ {path} = DOMAIN dl.disk \ {path}
    /\ \A p \in DOMAIN dl.disk \ {path} : dl'.disk[p] = dl.disk[p]

\* C28: when the indexed file of a document is on disk under another name than
\* the canonical one and a file is at the canonical path, the loop body deletes
\* the old file with one os.remove, moves and writes nothing, leaves every
\* other file as it was, and records the canonical path for the url.
C28_RenameCollision ==
    [][\A doc \in SyncDocs, old \in DOMAIN dl.disk :
          (StepsOver(doc) /\ IndexedOnDisk(doc, old)
              /\ old # NameNow(doc, old) /\ NameNow(doc, old) \in DOMAIN dl.disk) =>
                  /\ NewOps = <<[op |-> "remove", path |-> old, to |-> ""]>>
                  /\ old \notin DOMAIN dl'.disk
                  /\ OthersKept(old)
                  /\ dl'.download_index[doc.url].relative_path = NameNow(doc, old)
                  /\ dl'.synced_count = dl.synced_count + 1]_vars

\* The index named N1Y.pdf for A, now titled X, and N1X.pdf was on disk too:
\* N1Y.pdf is deleted, N1X.pdf is kept and recorded.
C28_Witness ==
    /\ pc = "saved"
    /\ Len(dl.handled) = 1
    /\ dl.handled[1].branch = "remove_old"
    /\ dl.ops = <<[op |-> "remove", path |-> "regulation/N1Y.pdf", to |-> ""]>>
    /\ DOMAIN dl.disk = {"regulation/N1X.pdf"}
    /\ fs[DOWNLOAD_INDEX_PATH].value.records["A"].relative_path = "regulation/N1X.pdf"

\* The index has no path for the url of doc at which a file exists.
NoUsableEntry(doc) == ~\E old \in DOMAIN dl.disk : IndexedOnDisk(doc, old)

\* The file at the expected base path of doc, the extensions tried in the
\* order .pdf, .doc, .docx, .txt; "" when there is none.
FirstCandidate(doc) ==
    LET base == get_download_subdir(doc.category_id) \o "/" \o generate_filename(doc, "")
    IN CASE (base \o ".pdf") \in DOMAIN dl.disk  -> base \o ".pdf"
         [] (base \o ".doc") \in DOMAIN dl.disk  -> base \o ".doc"
         [] (base \o ".docx") \in DOMAIN dl.disk -> base \o ".docx"
         [] (base \o ".txt") \in DOMAIN dl.disk  -> base \o ".txt"
         [] OTHER                                -> ""

\* C29: without a usable index entry and with a file at the expected base
\* path, the loop body records the first such file for the url, counts the
\* document as synced, calls no download and changes no file.
C29_AdoptExisting ==
    [][\A doc \in SyncDocs :
          (StepsOver(doc) /\ NoUsableEntry(doc) /\ FirstCandidate(doc) # "") =>
              /\ dl'.download_index[doc.url].relative_path = FirstCandidate(doc)
              /\ dl'.synced_count = dl.synced_count + 1
              /\ dl'.failed_count = dl.failed_count
              /\ NewOps = <<>>
              /\ dl'.disk = dl.disk]_vars

\* No index file; N1X.pdf and N1X.txt are on disk for A: the pdf is adopted.
C29_Witness ==
    /\ pc = "saved"
    /\ Len(dl.handled) = 1
    /\ dl.handled[1].branch = "adopt"
    /\ dl.handled[1].doc.url = "A"
    /\ DOMAIN dl.disk = {"regulation/N1X.pdf", "regulation/N1X.txt"}
    /\ dl.ops = <<>>
    /\ DOMAIN fs[DOWNLOAD_INDEX_PATH].value.records = {"A"}
    /\ fs[DOWNLOAD_INDEX_PATH].value.records["A"].relative_path = "regulation/N1X.pdf"

\* The index maps the url of doc to a path at which no file exists.
StaleEntry(doc) ==
    /\ doc.url \in DOMAIN dl.download_index
    /\ dl.download_index[doc.url].relative_path # ""
    /\ dl.download_index[doc.url].relative_path \notin DOMAIN dl.disk

\* C30: with a stale index entry the loop body ends the run in no way: it
\* adopts the file at the expected path when there is one, and else calls the
\* download; an adopted or saved file replaces the stale entry.
C30_StaleEntryIsAbsent ==
    [][\A doc \in SyncDocs :
          (AtDoc(doc) /\ StaleEntry(doc)) =>
              /\ StepsOver(doc)
              /\ pc' = "sync"
              /\ IF FirstCandidate(doc) # ""
                 THEN /\ NewOps = <<>>
                      /\ dl'.download_index[doc.url].relative_path = FirstCandidate(doc)
                 ELSE /\ NewOps # <<>>
                      /\ NewOps[1] = [op |-> "download", path |-> doc.url, to |-> ""]
                      /\ IF Len(NewOps) = 2
                         THEN /\ NewOps[2].op = "write"
                              /\ NewOps[2].path \in DOMAIN dl'.disk
                              /\ dl'.download_index[doc.url].relative_path = NewOps[2].path
                              /\ dl'.synced_count = dl.synced_count + 1
                         ELSE /\ dl'.download_index = dl.download_index
                              /\ dl'.failed_count = dl.failed_count + 1]_vars

\* The index named N1X.pdf for A and no file was on disk: A was downloaded and
\* the saved index names the file written now.
C30_Witness ==
    /\ pc = "saved"
    /\ Len(dl.handled) = 1
    /\ dl.handled[1].branch = "download"
    /\ dl.handled[1].doc = Document("13", "A", "Y", "valid")
    /\ dl.ops = <<[op |-> "download", path |-> "A", to |-> ""],
                  [op |-> "write", path |-> "regulation/N1Y.txt", to |-> ""]>>
    /\ dl.disk = ("regulation/N1Y.txt" :> FileOf("A", "now"))
    /\ fs[DOWNLOAD_INDEX_PATH].value.records["A"] = IndexEntry("regulation/N1Y.txt")

\* C37: two urls of the download index never have the same path, and a file
\* on disk that the index records for a url holds the document of that url.
C37_OneFilePerUrl ==
    pc \in {"sync", "saved"} =>
        \A u \in DOMAIN dl.download_index :
            LET path == dl.download_index[u].relative_path
            IN /\ \A v \in DOMAIN dl.download_index :
                     dl.download_index[v].relative_path = path => v = u
               /\ on_disk(dl.disk, path) => dl.disk[path].url = u

\* A and B have the same number and title: A was downloaded, B took the file
\* of A for its own, and the index saved maps both urls to that file.
C37_FileSharedByTwoUrls ==
    /\ pc = "saved"
    /\ Len(dl.handled) = 2
    /\ dl.handled[1].doc.url = "A"
    /\ dl.handled[1].branch = "download"
    /\ dl.handled[2].doc.url = "B"
    /\ dl.handled[2].branch = "adopt"
    /\ dl.download_index["A"].relative_path = dl.download_index["B"].relative_path
    /\ dl.disk[dl.download_index["B"].relative_path].url = "A"
    /\ fs[DOWNLOAD_INDEX_PATH].value.records = dl.download_index

\* What the code does keep: documents with names of their own.
OneFilePerUrlOnOwnNames ==
    (/\ pc \in {"sync", "saved"}
     /\ \A i \in DOMAIN dl.todo : dl.todo[i] # Document("13", "B", "X", "valid")
     /\ \A j \in DOMAIN dl.handled : dl.handled[j].doc # Document("13", "B", "X", "valid")) =>
        \A u \in DOMAIN dl.download_index :
            LET path == dl.download_index[u].relative_path
            IN /\ \A v \in DOMAIN dl.download_index :
                     dl.download_index[v].relative_path = path => v = u
               /\ on_disk(dl.disk, path) => dl.disk[path].url = u

----------------------------------------------------------------------------
(* Properties of runs of the sync one after the other (SpecRecover) *)

\* The index file is written by the step after the last document only, and
\* that step ends the loop of the run.
IndexSavedAfterBatch ==
    fs' # fs => (pc = "sync" /\ dl.todo = <<>> /\ pc' = "saved")

\* A run that ended inside its loop left the index file as it found it.
IndexUnchangedWhenLoopEnds ==
    pc = "exited" => fs[DOWNLOAD_INDEX_PATH] = sync.index_file

\* What a run did to the file of a url: the entries of handled with a file
\* moved, removed for another or downloaded.
FileChanges(handled, url) ==
    {i \in DOMAIN handled :
        /\ handled[i].doc.url = url
        /\ handled[i].branch \in {"download", "rename", "remove_old"}}

\* After a run that ended inside its loop, a document whose file that run
\* moved or downloaded is handled without a call of download_document_file.
RecoveredWithoutDownload ==
    sync.ended = "exited" =>
        \A i \in DOMAIN dl.handled :
            FileChanges(sync.earlier, dl.handled[i].doc.url) # {} =>
                dl.handled[i].branch \notin {"download", "download_failed", "download_interrupted"}

\* C40: the index file is written at most once a run and after the last
\* document only; a run that ends inside its loop leaves the index file as it
\* was; the next run finds the files that run moved or downloaded, without a
\* download.
C40_IndexSavedOnceAfterBatch ==
    /\ [][IndexSavedAfterBatch]_vars
    /\ [](IndexUnchangedWhenLoopEnds)
    /\ [](RecoveredWithoutDownload)

\* What the code does keep: one write after the batch, none when the loop ends
\* early.
IndexSavedOnceOrNotAtAll ==
    /\ [][IndexSavedAfterBatch]_vars
    /\ [](IndexUnchangedWhenLoopEnds)

\* The document with the long name: downloaded in the first run, moved to its
\* cut name in the second, which ended in its loop, downloaded again in the
\* third.
C40_DownloadedAgain ==
    /\ sync.run = 3
    /\ sync.ended = "exited"
    /\ \E j \in DOMAIN sync.earlier :
          sync.earlier[j].doc = LongNameDoc /\ sync.earlier[j].branch = "rename"
    /\ \E i \in DOMAIN dl.handled :
          dl.handled[i].doc = LongNameDoc /\ dl.handled[i].branch = "download"

\* Documents whose names keep within 200 characters with their extension are
\* found again without a download.
ShortNamesRecoveredWithoutDownload ==
    sync.ended = "exited" =>
        \A i \in DOMAIN dl.handled :
            (/\ dl.handled[i].doc # LongNameDoc
             /\ FileChanges(sync.earlier, dl.handled[i].doc.url) # {}) =>
                dl.handled[i].branch \notin {"download", "download_failed", "download_interrupted"}

\* A file written in part by an interrupted download is taken by the next run
\* for the file of the document.
PartFileAdopted ==
    /\ sync.ended = "exited"
    /\ \E i \in DOMAIN dl.handled :
          /\ dl.handled[i].branch = "adopt"
          /\ dl.disk[dl.handled[i].path].written = "partly"

----------------------------------------------------------------------------
(* Properties of the network requests (SpecTransfer) *)

\* The requests of a kind made for a document.
Attempts(url, kind) == {i \in DOMAIN calls : calls[i].url = url /\ calls[i].kind = kind}

\* A request of the attachment or of the upload that failed.
TransferFailed(i) ==
    /\ calls[i].kind \in {"get", "put"}
    /\ \/ \E j \in DOMAIN dl.results :
             /\ dl.results[j].url = calls[i].url
             /\ dl.results[j].kind = calls[i].kind
             /\ dl.results[j].result \in {"failed", "saved_text"}
       \/ calls[i].kind = "get" /\ dl.todo # <<>> /\ Head(dl.todo) = calls[i].url
             /\ dl.stage = "text"

\* C26: a failed GET of an attachment and a failed PUT of an upload are
\* followed by further attempts, up to a bound, before the transfer is given
\* up; and every document of the batch gets its result.
C26_TransfersRetried ==
    /\ \A i \in DOMAIN calls :
          TransferFailed(i) =>
              /\ Cardinality(Attempts(calls[i].url, calls[i].kind)) > 1
              /\ Cardinality(Attempts(calls[i].url, calls[i].kind)) <= retry_count
    /\ pc = "transferred" =>
          \A i \in DOMAIN calls : \E j \in DOMAIN dl.results : dl.results[j].url = calls[i].url

\* The page fetch, which the code does retry: a document is recorded as failed
\* for its page only after retry_count requests with the backoff between them.
PageFetchRetried ==
    \A j \in DOMAIN dl.results :
        (dl.results[j].kind = "page" /\ dl.results[j].result = "failed") =>
            /\ Cardinality(Attempts(dl.results[j].url, "page")) = retry_count
            /\ \A i \in Attempts(dl.results[j].url, "page") :
                  calls[i].slept = Backoff(calls[i].attempt)

\* An upload recorded as failed after a single PUT.
C26_FailedAfterOnePut ==
    /\ pc = "transferred"
    /\ \E j \in DOMAIN dl.results :
          /\ dl.results[j] = Outcome("A", "put", "failed")
          /\ Cardinality(Attempts("A", "put")) = 1

\* The page fetch of a document has returned its content.
PageFetched(url) ==
    \/ \E j \in DOMAIN dl.results : dl.results[j].url = url /\ dl.results[j].kind # "page"
    \/ dl.todo # <<>> /\ Head(dl.todo) = url /\ dl.stage \in {"link", "get", "text"}

\* The page fetch of a document has returned "".
PageFetchGivenUp(url) ==
    \E j \in DOMAIN dl.results : dl.results[j] = Outcome(url, "page", "failed")

\* The requests of the page of a document are numbered from 0 in the order
\* they are made, at most retry_count of them; one that is followed by
\* another was followed by a sleep of 2 ^ attempt seconds; the fetch that has
\* returned the content made its last request without a sleep after it; the
\* fetch that has returned "" made retry_count requests, without a sleep after
\* the last.
PageFetchBounded ==
    \A url \in TransferUrls :
        LET tries == Attempts(url, "page")
            n == Cardinality(tries)
        IN /\ n <= retry_count
           /\ \A i \in tries : calls[i].attempt = Cardinality({j \in tries : j < i})
           /\ \A i \in tries :
                 IF \E j \in tries : j > i
                 THEN calls[i].slept = 2 ^ calls[i].attempt
                 ELSE (PageFetched(url) \/ PageFetchGivenUp(url)) => calls[i].slept = 0
           /\ PageFetchGivenUp(url) => n = retry_count
           /\ (PageFetched(url) \/ PageFetchGivenUp(url)) => n >= 1
           /\ ~(PageFetched(url) /\ PageFetchGivenUp(url))

\* C33: the page fetch makes at most retry_count requests with a sleep of
\* 2 ^ k seconds after the failed request number k but the last, goes on with
\* the content of the first request that succeeds, gives the document up
\* after retry_count failures without raising, and every batch comes to its
\* end.
C33_PageFetchBounded ==
    []PageFetchBounded /\ <>(pc = "transferred")

\* The page of A was fetched at the third request, after sleeps of 1 and 2
\* seconds, and the batch has ended.
C33_Witness ==
    /\ pc = "transferred"
    /\ Cardinality(Attempts("A", "page")) = 3
    /\ PageFetched("A")
    /\ \E i, j, k \in Attempts("A", "page") :
          /\ i < j /\ j < k
          /\ calls[i].slept = 1
          /\ calls[j].slept = 2
          /\ calls[k].slept = 0

\* The page of A failed three times: A is recorded as failed, no sleep
\* followed the third failure, and B was fetched after it.
C33_WitnessGivenUp ==
    /\ pc = "transferred"
    /\ PageFetchGivenUp("A")
    /\ Cardinality(Attempts("A", "page")) = retry_count
    /\ \E i \in Attempts("A", "page") : calls[i].attempt = 2 /\ calls[i].slept = 0
    /\ \E i \in Attempts("B", "page") : \A j \in Attempts("A", "page") : j < i
    /\ PageFetched("B")

----------------------------------------------------------------------------
(* Properties of the file names (SpecName) *)

\* A text ends with another.
EndsWith(text, tail) ==
    /\ Len(text) >= Len(tail)
    /\ SubSeq(text, Len(text) - Len(tail) + 1, Len(text)) = tail

\* The extension with one leading dot.
Dotted(extension) == IF Head(extension) = "." THEN extension ELSE "." \o extension

\* The document with every field but validity, doc_number and title replaced.
OtherFields(doc) ==
    [doc EXCEPT !.url = "B", !.category_id = "14", !.category = "normatives",
                !.office_unit = "U2", !.sign_date = "2024-01-01",
                !.publish_date = "2024-01-30", !.pdf_url = "P", !.has_pdf = TRUE]

\* C34: a name returned by generate_filename has at most 200 characters, ends
\* with the dot and the extension when an extension is given, and is the same
\* for a document that differs in the other fields only.
C34_FileNameBound ==
    pc = "named" =>
        /\ Len(dl.name) <= 200
        /\ dl.extension # "" => EndsWith(dl.name, Dotted(dl.extension))
        /\ dl.name = generate_filename(OtherFields(dl.document), dl.extension)

\* A name over the bound was cut: 200 characters, the four dots and the
\* extension at its end.
C34_Witness ==
    /\ pc = "named"
    /\ Len(NameParts(dl.document)) > 200
    /\ dl.extension = ".docx"
    /\ Len(dl.name) = 200
    /\ EndsWith(dl.name, "a....docx")

\* C38: the path a download saves a document at is the path a later sync
\* computes for the document, which then moves no file.
C38_DownloadPathIsCanonical ==
    pc = "synced" => (dl.new_path = dl.saved_path /\ ~dl.renamed)

\* The name of a document has 198 characters: its pdf was saved under 202
\* characters and the later sync moved it to a name of 200.
C38_RenamedAtLaterSync ==
    /\ pc = "synced"
    /\ Len(NameParts(dl.document)) = 198
    /\ dl.extension = ".pdf"
    /\ Len(dl.saved_path) = Len("regulation/") + 202
    /\ Len(dl.new_path) = Len("regulation/") + 200
    /\ dl.renamed

\* What the code does keep: a name that is within the bound with its
\* extension is saved at its canonical path.
ShortNamePathIsCanonical ==
    (pc = "synced" /\ Len(NameParts(dl.document)) + Len(dl.extension) <= 200) =>
        (dl.new_path = dl.saved_path /\ ~dl.renamed)

----------------------------------------------------------------------------
(* Properties of runs one after the other (SpecHistory) *)

\* C35: detect_changes on the documents that update_state has just committed
\* returns no new and no updated document.
C35_DetectionFixedPoint ==
    pc = "redetected" => changes = NoChanges

\* The page listed the url A under two titles: after the commit the row of
\* the first title is detected as updated.
C35_UpdatedAfterCommit ==
    /\ pc = "redetected"
    /\ Len(current_documents["13"]) = 2
    /\ current_documents["13"][1].url = "A"
    /\ current_documents["13"][2].url = "A"
    /\ "13" \in DOMAIN changes.updated_documents
    /\ changes.updated_documents["13"][1].title = "X"

\* What the code does keep: the fixed point when no url is listed twice.
FixedPointOnUniqueUrls ==
    (pc = "redetected" /\ \A c \in DOMAIN current_documents :
                              \A i, j \in DOMAIN current_documents[c] :
                                  current_documents[c][i].url = current_documents[c][j].url
                                      => i = j) =>
        changes = NoChanges

\* The detection of the run in hand has been made.
HistoryDetected == pc \in {"detected", "synced"}

\* C36 as stated: a document classified new in a run was classified new in
\* no run before it.
C36_NewAtMostOnce ==
    HistoryDetected => DocKeys(changes.new_documents) \cap sync.ever_new = {}

\* C36: the documents classified new in a run are the documents of its fetch
\* whose url the fetch of the run before it did not hold in their category;
\* so a document in the fetch of the run before is never new.
C36_NewIffNotInLastFetch ==
    HistoryDetected =>
        DocKeys(changes.new_documents) = DocKeys(current_documents) \ sync.known

\* Third run: B was new in the first run, was not in the fetch of the second,
\* and is new again.
C36_Witness ==
    /\ HistoryDetected
    /\ sync.run = 3
    /\ <<"13", "B">> \in sync.ever_new
    /\ <<"13", "B">> \notin sync.known
    /\ <<"13", "B">> \in DocKeys(changes.new_documents)
    /\ <<"13", "A">> \in sync.known
    /\ <<"13", "A">> \in DocKeys(current_documents)
    /\ <<"13", "A">> \notin DocKeys(changes.new_documents)

----------------------------------------------------------------------------
(* Properties of a run of main (SpecRun) *)

\* The calls of a component in the run.
CallsOf(component) == {i \in DOMAIN calls : calls[i].component = component}

\* The documents of a category-keyed map, as a set.
DocsIn(documents) ==
    UNION {{documents[c][i] : i \in DOMAIN documents[c]} : c \in DOMAIN documents}

C22_SnapshotAfterFailedNotify ==
    /\ pc = "returned"
    /\ sync.exit_code = 1
    /\ sync.writes = <<"download_index", "export", "snapshot">>
    /\ fs[DATA_PATH] # sync.initial[DATA_PATH]
    /\ \E i \in CallsOf("send_all") : calls[i].results = "all_failed"

\* No row of the list pages yields a document.
NoDocumentOnPages ==
    \A c \in DOMAIN sync.pages : \A i \in DOMAIN sync.pages[c] : sync.pages[c][i].title = ""

\* C23: a run whose fetch yields no document returns 1, calls no component and
\* leaves every file as it found it; a run that detects no change and is not
\* told to notify returns 0.
C23_FatalPrecondition ==
    /\ (pc = "returned" /\ NoDocumentOnPages) =>
          /\ sync.exit_code = 1
          /\ fs = sync.initial
          /\ sync.writes = <<>>
          /\ calls = <<>>
    /\ (pc = "returned" /\ CallsOf("detect_changes") # {} /\ ~has_changes(changes)
            /\ sync.args.notify = 0) =>
          sync.exit_code = 0

\* The page of the regulations has a row without link text only and the other
\* page could not be fetched: the run returned 1 and the snapshot it found is
\* untouched.
C23_Witness ==
    /\ pc = "returned"
    /\ sync.pages["13"] = <<PageRow("", "C", "2024-01-30")>>
    /\ sync.pages["14"] = <<>>
    /\ ~sync.args.dry_run
    /\ sync.args.days = 0
    /\ sync.exit_code = 1
    /\ fs[DATA_PATH].kind = "json"
    /\ fs = sync.initial

\* Each url occurs at most once in each list of documents.
UrlsUnique(documents) ==
    \A c \in DOMAIN documents :
        \A i, j \in DOMAIN documents[c] :
            documents[c][i].url = documents[c][j].url => i = j

\* C24: the document lists handed to detect_changes, update_state and
\* sync_js_files hold each url at most once per category.
C24_UrlUnique ==
    \A i \in DOMAIN calls :
        calls[i].component \in {"detect_changes", "update_state", "sync_js_files"} =>
            UrlsUnique(calls[i].documents)

\* The snapshot written holds two records of url A.
C24_DuplicateStored ==
    /\ pc = "returned"
    /\ sync.writes # <<>>
    /\ sync.writes[Len(sync.writes)] = "snapshot"
    /\ Len(fs[DATA_PATH].value.documents["13"]) = 2
    /\ fs[DATA_PATH].value.documents["13"][1].url = "A"
    /\ fs[DATA_PATH].value.documents["13"][2].url = "A"

\* The documents handed to the download sync in the run.
HandedToSync ==
    UNION {{calls[i].documents[j] : j \in DOMAIN calls[i].documents} : i \in CallsOf("download_sync")}

\* C25: once an incremental run with downloads enabled is past its download
\* step, or has written the snapshot, the documents handed to the download sync
\* are the documents detect_changes returned as new or updated.
C25_DetectedAreSynced ==
    (/\ sync.args.days = 0
     /\ ~sync.args.no_download
     /\ \/ pc \in {"mirror", "export", "notify", "update"}
        \/ CallsOf("update_state") # {}) =>
        HandedToSync = DocsIn(changes.new_documents) \cup DocsIn(changes.updated_documents)

\* A new document published long ago was not handed to the download sync and
\* is in the snapshot written.
C25_NewDocumentNotSynced ==
    /\ pc = "returned"
    /\ CallsOf("update_state") # {}
    /\ ~sync.args.no_download
    /\ \E d \in DocsIn(changes.new_documents) :
          /\ d.url = "B"
          /\ d \notin HandedToSync
          /\ \E i \in DOMAIN fs[DATA_PATH].value.documents["13"] :
                fs[DATA_PATH].value.documents["13"][i].url = "B"

\* C27: with --dry-run no step of the run changes the state file, and
\* update_state is never called.
C27_DryRunKeepsSnapshot ==
    /\ [][sync.args.dry_run => fs'[DATA_PATH] = fs[DATA_PATH]]_vars
    /\ [](sync.args.dry_run =>
              /\ CallsOf("update_state") = {}
              /\ \A i \in DOMAIN sync.writes : sync.writes[i] # "snapshot")

\* A dry run that detected changes, synced, exported and notified, and
\* returned 0 past step 7 with the state file as it found it.
C27_Witness ==
    /\ pc = "returned"
    /\ sync.args.dry_run
    /\ sync.args.days = 0
    /\ sync.exit_code = 0
    /\ has_changes(changes)
    /\ sync.writes = <<"download_index", "export">>
    /\ CallsOf("send_all") # {}
    /\ fs[DATA_PATH] = sync.initial[DATA_PATH]
    /\ fs[DATA_PATH].kind = "json"

\* A dry run without changes and without forced notification returned early.
C27_WitnessNoChanges ==
    /\ pc = "returned"
    /\ sync.args.dry_run
    /\ sync.args.notify = 0
    /\ CallsOf("detect_changes") # {}
    /\ ~has_changes(changes)
    /\ calls = <<Called("detect_changes", current_documents)>>
    /\ fs = sync.initial

====
